---- MODULE Spec2Model ----
(***************************************************************************)
(* CPU scheduling engine of LearnOS (server/app/services/cpu.py).          *)
(*                                                                         *)
(* The service object CPUSchedulingService is a module-level singleton     *)
(* (cpu_service); its three fields are the variable svc.  Every call of a  *)
(* public method (fcfs, sjf, priority_scheduling, round_robin, mlfq) owns  *)
(* a frame of local variables; the frames of the calls in progress are the *)
(* variable runs.  One action is one pass of a simulation loop.            *)
(* The request layer (schedule_processes) answers one HTTP request; the    *)
(* request and its response are the variable http.                         *)
(*                                                                         *)
(* Times are whole ticks: the floats of the source are taken on values     *)
(* that binary floating point represents exactly.                          *)
(***************************************************************************)
EXTENDS Integers, Sequences, FiniteSets, TLC

VARIABLES svc, runs, hist, http, manager

vars == <<svc, runs, hist, http, manager>>

-----------------------------------------------------------------------------
(* Bounds of the workloads that are drawn.                                  *)

MaxArrival == 2

MaxBurst == 2

(* Python's None, for the Optional numeric values (last_process,            *)
(* response_time, time_quantum, queue_level), which are never negative.     *)
None == -1

-----------------------------------------------------------------------------
(* Generic helpers: Python built-ins used by the engine.                    *)

Range(s) == {s[i] : i \in 1..Len(s)}

Min(S) == CHOOSE x \in S : \A y \in S : x <= y

Max(S) == CHOOSE x \in S : \A y \in S : x >= y

MinOf(a, b) == IF a <= b THEN a ELSE b

MaxOf(a, b) == IF a >= b THEN a ELSE b

RECURSIVE SumSeq(_)
SumSeq(s) == IF s = <<>> THEN 0 ELSE Head(s) + SumSeq(Tail(s))

RECURSIVE SelectSeqBy(_, _)
(* The elements of s, in order, whose position is in the set keep.          *)
SelectSeqBy(s, keep) ==
  IF s = <<>> THEN <<>>
  ELSE LET n == Len(s)
           front == SelectSeqBy(SubSeq(s, 1, n - 1), keep)
       IN IF n \in keep THEN Append(front, s[n]) ELSE front

(* Lexicographic order on integer tuples of one length (Python tuples as    *)
(* sort keys).                                                              *)
TupleLess(a, b) ==
  \E k \in 1..Len(a) : a[k] < b[k] /\ \A j \in 1..(k - 1) : a[j] = b[j]

RECURSIVE InsertByKey(_, _, _, _)
(* Insert x with key kx after every element whose key is not greater: the   *)
(* step of a stable sort.  sorted and keys are parallel sequences.          *)
InsertByKey(sorted, keys, x, kx) ==
  IF sorted = <<>> THEN [s |-> <<x>>, k |-> <<kx>>]
  ELSE LET n == Len(sorted) IN
       IF TupleLess(kx, keys[n])
       THEN LET r == InsertByKey(SubSeq(sorted, 1, n - 1), SubSeq(keys, 1, n - 1), x, kx)
            IN [s |-> Append(r.s, sorted[n]), k |-> Append(r.k, keys[n])]
       ELSE [s |-> Append(sorted, x), k |-> Append(keys, kx)]

RECURSIVE SortedPairs(_, _)
SortedPairs(s, keys) ==
  IF s = <<>> THEN [s |-> <<>>, k |-> <<>>]
  ELSE LET n == Len(s)
           r == SortedPairs(SubSeq(s, 1, n - 1), SubSeq(keys, 1, n - 1))
       IN InsertByKey(r.s, r.k, s[n], keys[n])

(* The list as it is given, not sorted.                                     *)
AsListed(s, keys) == s

(* sorted(s, key=...): stable, ascending.                                   *)
Sorted(s, keys) == SortedPairs(s, keys).s

(* min(s, key=...): the first element of s with the least key.              *)
MinByKey(s, keys) ==
  LET i == CHOOSE i \in 1..Len(s) :
             /\ \A j \in 1..Len(s) : ~TupleLess(keys[j], keys[i])
             /\ \A j \in 1..(i - 1) : TupleLess(keys[i], keys[j])
  IN s[i]

(* list.index / "x in list" helpers.                                        *)
InSeq(x, s) == \E i \in 1..Len(s) : s[i] = x

(* list.remove(x): drops the first occurrence.                              *)
RemoveFirst(s, x) ==
  IF ~InSeq(x, s) THEN s
  ELSE LET i == Min({j \in 1..Len(s) : s[j] = x})
       IN SubSeq(s, 1, i - 1) \o SubSeq(s, i + 1, Len(s))

-----------------------------------------------------------------------------
(* Data model (app/models/cpu.py).                                          *)

Process(id, arrival_time, burst_time, priority) ==
  [id |-> id, arrival_time |-> arrival_time, burst_time |-> burst_time,
   priority |-> priority]

MLFQConfig(num_queues, time_quantums, aging_threshold, boost_interval, priority_boost) ==
  [num_queues |-> num_queues, time_quantums |-> time_quantums,
   aging_threshold |-> aging_threshold, boost_interval |-> boost_interval,
   priority_boost |-> priority_boost]

(* MLFQConfig(): the defaults of the model class.                           *)
DefaultMLFQConfig == MLFQConfig(3, <<2, 4, 8>>, 10, 100, TRUE)

(* A request together with the public method it is handed to.               *)
(* process_weights maps ids to weights in halves (2 is the weight 1.0).     *)
SchedulingRequest(method, processes, time_quantum, context_switch_cost, preemptive, rr_variation, process_weights, priority_type, mlfq_config) ==
  [method |-> method, processes |-> processes, time_quantum |-> time_quantum,
   context_switch_cost |-> context_switch_cost, preemptive |-> preemptive,
   rr_variation |-> rr_variation, process_weights |-> process_weights,
   priority_type |-> priority_type, mlfq_config |-> mlfq_config]

ScheduleEntry(process_id, start_time, end_time, type, queue_level) ==
  [process_id |-> process_id, start_time |-> start_time, end_time |-> end_time,
   type |-> type, queue_level |-> queue_level]

ProcessResult(p, completion_time, waiting_time, response_time) ==
  [pid |-> p.id, arrival_time |-> p.arrival_time, burst_time |-> p.burst_time,
   priority |-> p.priority, completion_time |-> completion_time,
   turnaround_time |-> completion_time - p.arrival_time,
   waiting_time |-> waiting_time, response_time |-> response_time]

(* A response time that every dispatch writes again.                        *)
LatestResponse(response_time, t, arrival_time) == t - arrival_time

(* if data['response_time'] is None: data['response_time'] = current_time   *)
(* - arrival_time                                                           *)
FirstResponse(response_time, t, arrival_time) ==
  IF response_time = None THEN t - arrival_time ELSE response_time

(* waiting_time of a process that ran in slices.  A change that loses the   *)
(* arrival time is WaitingTimeFromZero.                                     *)
WaitingTimeFromZero(completion_time, p) == completion_time - p.burst_time

WaitingTime(completion_time, p) == completion_time - p.arrival_time - p.burst_time

(* The process of the request with the given id (the dict built from        *)
(* request.processes keeps the last one on a duplicate id).                 *)
ProcessOf(req, pid) ==
  req.processes[Max({i \in 1..Len(req.processes) : req.processes[i].id = pid})]

(* Keys of the dict {p.id: ...} in iteration order: insertion order, each   *)
(* id once, at the place of its first occurrence.                           *)
DictOrder(req) ==
  LET ps == req.processes
  IN SelectSeqBy([i \in 1..Len(ps) |-> ps[i].id],
                 {i \in 1..Len(ps) : \A j \in 1..(i - 1) : ps[j].id # ps[i].id})

IdsOf(req) == {req.processes[i].id : i \in 1..Len(req.processes)}

-----------------------------------------------------------------------------
(* The service singleton and the frame of one call.                         *)

(* CPUSchedulingService.__init__: context_switch_cost is 0.5 there; every   *)
(* public method overwrites it before it is read, so the tick value 1       *)
(* stands for it.                                                           *)
ServiceInit == [context_switches |-> 0, total_time |-> 0, context_switch_cost |-> 1]

NoMetrics == [context_switches |-> None]

(* The local variables of a call before its first statement.  Fields a      *)
(* method does not use keep these values.  jumps is a history of the clock  *)
(* jumps over intervals with no ready process: <<from, to>> pairs;          *)
(* promotions is a history of the moves of the aging passes, per process.   *)
NewFrame(req) ==
  [req |-> req, pc |-> "call", error |-> "",
   processes |-> <<>>, i |-> 1,
   current_time |-> 0, last_process |-> None,
   schedule |-> <<>>, results |-> <<>>,
   completed |-> {},
   remaining |-> [pid \in IdsOf(req) |-> ProcessOf(req, pid).burst_time],
   response_time |-> [pid \in IdsOf(req) |-> None],
   effective_priority |-> [pid \in IdsOf(req) |-> None],
   ready_queue |-> <<>>, time_quantum |-> None,
   quantum |-> [pid \in IdsOf(req) |-> None],
   deficit_counter |-> [pid \in IdsOf(req) |-> 0],
   queues |-> <<>>,
   queue_level |-> [pid \in IdsOf(req) |-> 0],
   wait_start_time |-> [pid \in IdsOf(req) |-> ProcessOf(req, pid).arrival_time],
   last_boost_time |-> 0, broke |-> FALSE,
   metrics |-> NoMetrics,
   jumps |-> <<>>,
   promotions |-> [pid \in IdsOf(req) |-> <<>>]]

(* What a call hands back: the SchedulingResult, or the exception.          *)
Outcome(f) ==
  IF f.pc = "raised" THEN [error |-> f.error]
  ELSE [error |-> "", processes |-> f.results, schedule |-> f.schedule,
        metrics |-> f.metrics]

(* The call returned its result; the call ended, with a result or an       *)
(* exception.                                                               *)
Returned(f) == f.pc = "done"

Ended(f) == f.pc \in {"done", "raised"}

(* A switch that is entered and counted whatever the cost is.               *)
SwitchAtAnyCost(s, schedule, time, from_process) ==
  [svc |-> [s EXCEPT !.context_switches = @ + 1],
   schedule |-> Append(schedule,
                  ScheduleEntry(IF from_process = None \/ from_process = 0
                                THEN -1 ELSE from_process,
                                time, time + s.context_switch_cost,
                                "context_switch", None)),
   time |-> time + s.context_switch_cost]

(* A switch that is entered and counted but takes no time.                  *)
SwitchInNoTime(s, schedule, time, from_process) ==
  IF s.context_switch_cost > 0 /\ Len(schedule) > 0
  THEN [svc |-> [s EXCEPT !.context_switches = @ + 1],
        schedule |-> Append(schedule,
                       [process_id |-> from_process, start_time |-> time,
                        end_time |-> time, type |-> "context_switch",
                        queue_level |-> None]),
        time |-> time]
  ELSE [svc |-> s, schedule |-> schedule, time |-> time]

(* _add_context_switch: the entry is appended and counted only with a       *)
(* positive cost and a non-empty schedule.  from_process or -1.             *)
AddContextSwitch(s, schedule, time, from_process) ==
  IF s.context_switch_cost > 0 /\ Len(schedule) > 0
  THEN [svc |-> [s EXCEPT !.context_switches = @ + 1],
        schedule |-> Append(schedule,
                       ScheduleEntry(IF from_process = None \/ from_process = 0
                                     THEN -1 ELSE from_process,
                                     time, time + s.context_switch_cost,
                                     "context_switch", None)),
        time |-> time + s.context_switch_cost]
  ELSE [svc |-> s, schedule |-> schedule, time |-> time]

(* No call of _add_context_switch in this pass.                             *)
NoSwitch(s, schedule, time) == [svc |-> s, schedule |-> schedule, time |-> time]

(* A quotient of the metrics, kept exact as numerator and denominator.      *)
Frac(n, d) == [num |-> n, den |-> d]

(* The busy time without the time of the context switches.                  *)
BurstOnly(s, total_burst) == total_burst

(* total_execution_time: the burst times and the time of the switches.      *)
TotalExecutionTime(s, total_burst) ==
  total_burst + s.context_switches * s.context_switch_cost

(* _calculate_metrics.  response_time or 0: None counts as 0.               *)
CalculateMetrics(s, results, total_time) ==
  IF results = <<>>
  THEN [average_waiting_time |-> Frac(0, 1), average_turnaround_time |-> Frac(0, 1),
        average_response_time |-> Frac(0, 1), cpu_utilization |-> Frac(0, 1),
        throughput |-> Frac(0, 1), context_switches |-> s.context_switches,
        total_time |-> total_time]
  ELSE LET n == Len(results)
           total_waiting == SumSeq([k \in 1..n |-> results[k].waiting_time])
           total_turnaround == SumSeq([k \in 1..n |-> results[k].turnaround_time])
           total_response == SumSeq([k \in 1..n |->
                                 IF results[k].response_time = None THEN 0
                                 ELSE results[k].response_time])
           total_burst == SumSeq([k \in 1..n |-> results[k].burst_time])
           total_execution_time == TotalExecutionTime(s, total_burst)
       IN [average_waiting_time |-> Frac(total_waiting, n),
           average_turnaround_time |-> Frac(total_turnaround, n),
           average_response_time |-> Frac(total_response, n),
           cpu_utilization |-> IF total_time > 0
                               THEN Frac(total_execution_time * 100, total_time)
                               ELSE Frac(0, 1),
           throughput |-> IF total_time > 0 THEN Frac(n, total_time) ELSE Frac(0, 1),
           context_switches |-> s.context_switches,
           total_time |-> total_time]

(* One pass of a loop: the frame and the service after it.                  *)
Pass(f, s) == [frame |-> f, svc |-> s]

(* An exception leaves the method: nothing is returned.                     *)
Raise(f, s, e) == Pass([f EXCEPT !.pc = "raised", !.error = e], s)

(* The clock moved from a to b with nothing to run.                         *)
Jump(jumps, a, b) == Append(jumps, <<a, b>>)

-----------------------------------------------------------------------------
(* fcfs                                                                     *)

FcfsInit(f) ==
  LET ps == f.req.processes
  IN [f EXCEPT !.pc = "loop",
               !.processes = Sorted(ps, [k \in 1..Len(ps) |-> <<ps[k].arrival_time>>]),
               !.i = 1, !.current_time = 0, !.last_process = None]

FcfsCondition(f) == f.i <= Len(f.processes)

FcfsIteration(f, s) ==
  LET process == f.processes[f.i]
      jumped == f.current_time < process.arrival_time
      t0 == IF jumped THEN process.arrival_time ELSE f.current_time
      cs == IF f.last_process # None
            THEN AddContextSwitch(s, f.schedule, t0, f.last_process)
            ELSE NoSwitch(s, f.schedule, t0)
      start_time == cs.time
      end_time == cs.time + process.burst_time
  IN Pass([f EXCEPT
             !.schedule = Append(cs.schedule,
                            ScheduleEntry(process.id, start_time, end_time, "execution", None)),
             !.results = Append(@, ProcessResult(process, end_time,
                                     start_time - process.arrival_time,
                                     start_time - process.arrival_time)),
             !.current_time = end_time,
             !.last_process = process.id,
             !.i = @ + 1,
             !.jumps = IF jumped THEN Jump(@, f.current_time, t0) ELSE @],
          cs.svc)

-----------------------------------------------------------------------------
(* sjf: _sjf_non_preemptive and _srtf                                       *)

SjfInit(f) ==
  [f EXCEPT !.pc = "loop", !.processes = f.req.processes,
            !.current_time = 0, !.completed = {}, !.last_process = None]

(* A list that leaves out the test of the arrival time.                     *)
UncompletedList(f) == SelectSeq(f.processes, LAMBDA p : p.id \notin f.completed)

(* The list of the processes that have arrived and are not completed.       *)
AvailableList(f) ==
  SelectSeq(f.processes,
            LAMBDA p : p.arrival_time <= f.current_time /\ p.id \notin f.completed)

NonPreemptiveCondition(f) == Cardinality(f.completed) < Len(f.processes)

(* The part of a non-preemptive pass after the selection.                   *)
RunToCompletion(f, s, selected) ==
  LET cs == IF f.last_process # None
            THEN AddContextSwitch(s, f.schedule, f.current_time, f.last_process)
            ELSE NoSwitch(s, f.schedule, f.current_time)
      start_time == cs.time
      end_time == cs.time + selected.burst_time
  IN Pass([f EXCEPT
             !.schedule = Append(cs.schedule,
                            ScheduleEntry(selected.id, start_time, end_time, "execution", None)),
             !.results = Append(@, ProcessResult(selected, end_time,
                                     start_time - selected.arrival_time,
                                     start_time - selected.arrival_time)),
             !.completed = @ \cup {selected.id},
             !.current_time = end_time,
             !.last_process = selected.id],
          cs.svc)

(* "if not available": the clock goes to the next arrival and the pass ends.*)
NonPreemptiveIdle(f, s) ==
  LET pending == {f.processes[k].arrival_time : k \in
                    {k \in 1..Len(f.processes) : f.processes[k].id \notin f.completed}}
  IN Pass([f EXCEPT !.current_time = Min(pending),
                    !.jumps = Jump(@, f.current_time, Min(pending))], s)

SjfNonPreemptiveIteration(f, s) ==
  LET available == AvailableList(f) IN
  IF available = <<>> THEN NonPreemptiveIdle(f, s)
  ELSE RunToCompletion(f, s,
         MinByKey(available,
                  [k \in 1..Len(available) |->
                     <<available[k].burst_time, available[k].arrival_time, available[k].id>>]))

(* The ids with work left, arrived or not.                                  *)
UnfinishedIds(f) == SelectSeq(DictOrder(f.req), LAMBDA pid : f.remaining[pid] > 0)

(* The ids of the dict, in its order, that have arrived and have work left. *)
AvailableIds(f) ==
  SelectSeq(DictOrder(f.req),
            LAMBDA pid : ProcessOf(f.req, pid).arrival_time <= f.current_time
                         /\ f.remaining[pid] > 0)

PreemptiveInit(f) ==
  [f EXCEPT !.pc = "loop", !.current_time = 0, !.last_process = None]

(* any(p['remaining'] > 0 ...)                                               *)
WorkLeft(f) == {pid \in IdsOf(f.req) : f.remaining[pid] > 0} # {}

PreemptiveCondition(f) == WorkLeft(f)

(* "if not available" of the preemptive loops.                              *)
PreemptiveIdle(f, s) ==
  LET pending == {ProcessOf(f.req, pid).arrival_time :
                    pid \in {q \in IdsOf(f.req) : f.remaining[q] > 0}}
  IN Pass([f EXCEPT !.current_time = Min(pending),
                    !.jumps = Jump(@, f.current_time, Min(pending))], s)

(* The switch to the selected process, if the one that ran last is another. *)
SwitchTo(f, s, selected_id) ==
  IF f.last_process # None /\ f.last_process # selected_id
  THEN AddContextSwitch(s, f.schedule, f.current_time, f.last_process)
  ELSE NoSwitch(s, f.schedule, f.current_time)

(* A slice that ignores the arrivals and runs to the completion.            *)
CompletionOnly(t, remaining, events) == t + remaining

(* next_event = min(next_events): the completion of the selected process    *)
(* or the earliest of the arrivals that end the slice.                      *)
NextEvent(t, remaining, events) == Min({t + remaining} \cup events)

(* The part of a preemptive pass after the switch cs: the response time,    *)
(* the slice up to next_event, and the completion.  events is the set of    *)
(* arrival times that end the slice.                                        *)
RunSlice(f, cs, selected_id, events) ==
  LET p == ProcessOf(f.req, selected_id)
      t == cs.time
      response == FirstResponse(f.response_time[selected_id], t, p.arrival_time)
      next_event == NextEvent(t, f.remaining[selected_id], events)
      execution_time == next_event - t
      left == f.remaining[selected_id] - execution_time
      now == t + execution_time
  IN Pass([f EXCEPT
             !.schedule = Append(cs.schedule,
                            ScheduleEntry(selected_id, t, t + execution_time, "execution", None)),
             !.response_time[selected_id] = response,
             !.remaining[selected_id] = left,
             !.current_time = now,
             !.results = IF left = 0
                         THEN Append(@, ProcessResult(p, now,
                                          WaitingTime(now, p), response))
                         ELSE @,
             !.last_process = IF left = 0 THEN None ELSE selected_id],
          cs.svc)

(* The selection key of the longest remaining time first.                   *)
LongestFirstKey(f, pid) ==
  <<0 - f.remaining[pid], ProcessOf(f.req, pid).arrival_time, pid>>

(* The selection key: (remaining, arrival_time, pid).                       *)
SrtfKey(f, pid) == <<f.remaining[pid], ProcessOf(f.req, pid).arrival_time, pid>>

SrtfIteration(f, s) ==
  LET available == AvailableIds(f) IN
  IF available = <<>> THEN PreemptiveIdle(f, s)
  ELSE LET selected_id ==
             MinByKey(available, [k \in 1..Len(available) |-> SrtfKey(f, available[k])])
           cs == SwitchTo(f, s, selected_id)
           t == cs.time
           events ==
             {ProcessOf(f.req, pid).arrival_time : pid \in
                {q \in IdsOf(f.req) :
                   /\ ProcessOf(f.req, q).arrival_time > t
                   /\ f.remaining[q] > 0
                   /\ ProcessOf(f.req, q).arrival_time < t + f.remaining[selected_id]
                   /\ f.remaining[q] < f.remaining[selected_id]}}
       IN RunSlice(f, cs, selected_id, events)

-----------------------------------------------------------------------------
(* priority_scheduling: _priority_non_preemptive and _priority_preemptive   *)

(* int(wait_time / 10) of the dynamic priority.                             *)
AgingDivisor == 10

AgingBonus(wait_time) == wait_time \div AgingDivisor

(* An assignment that stores the effective priority in the Process objects *)
(* of the request.                                                          *)
StoreEffectivePriority(f, s) ==
  Pass([f EXCEPT
          !.pc = "raised", !.error = "ValueError",
          !.req.processes =
             [k \in 1..Len(f.req.processes) |->
                [id |-> f.req.processes[k].id,
                 arrival_time |-> f.req.processes[k].arrival_time,
                 burst_time |-> f.req.processes[k].burst_time,
                 priority |-> f.req.processes[k].priority,
                 effective_priority |->
                   f.req.processes[k].priority
                   - AgingBonus(f.current_time - f.req.processes[k].arrival_time)]]], s)

(* p.effective_priority = ... on a Process of the request, a pydantic model *)
(* that declares no such field: the assignment raises ValueError and        *)
(* leaves the Process as it was.                                            *)
AssignEffectivePriority(f, s) == Raise(f, s, "ValueError")

(* Non-preemptive.  With priority_type 'dynamic' the loop assigns           *)
(* p.effective_priority at the first selection.                             *)
PriorityNonPreemptiveIteration(f, s) ==
  LET available == AvailableList(f) IN
  IF available = <<>> THEN NonPreemptiveIdle(f, s)
  ELSE IF f.req.priority_type = "dynamic" THEN AssignEffectivePriority(f, s)
  ELSE RunToCompletion(f, s,
         MinByKey(available,
                  [k \in 1..Len(available) |->
                     <<available[k].priority, available[k].arrival_time, available[k].id>>]))

(* Preemptive.  With 'dynamic' the effective priority is stored under a key *)
(* of the dict, and read back with getattr, which finds no such attribute   *)
(* on a dict and yields the default: the selection key is the base          *)
(* priority in both types.                                                  *)
PriorityPreemptiveIteration(f, s) ==
  LET available == AvailableIds(f) IN
  IF available = <<>> THEN PreemptiveIdle(f, s)
  ELSE LET dynamic == f.req.priority_type = "dynamic"
           aged == [pid \in IdsOf(f.req) |->
                      IF dynamic /\ InSeq(pid, available)
                      THEN ProcessOf(f.req, pid).priority
                           - AgingBonus(f.current_time - ProcessOf(f.req, pid).arrival_time)
                      ELSE f.effective_priority[pid]]
           g == [f EXCEPT !.effective_priority = aged]
           selected_id ==
             MinByKey(available,
                      [k \in 1..Len(available) |->
                         <<ProcessOf(f.req, available[k]).priority,
                           ProcessOf(f.req, available[k]).arrival_time, available[k]>>])
           sel == ProcessOf(f.req, selected_id)
           cs == SwitchTo(g, s, selected_id)
           t == cs.time
           current_priority ==
             IF dynamic THEN sel.priority - AgingBonus(t - sel.arrival_time)
             ELSE sel.priority
           arriving_priority(q) ==
             IF dynamic
             THEN ProcessOf(f.req, q).priority
                  - AgingBonus(ProcessOf(f.req, q).arrival_time - ProcessOf(f.req, q).arrival_time)
             ELSE ProcessOf(f.req, q).priority
           events ==
             {ProcessOf(f.req, pid).arrival_time : pid \in
                {q \in IdsOf(f.req) :
                   /\ ProcessOf(f.req, q).arrival_time > t
                   /\ f.remaining[q] > 0
                   /\ arriving_priority(q) < current_priority}}
       IN RunSlice(g, cs, selected_id, events)

-----------------------------------------------------------------------------
(* round_robin: _standard_round_robin, _weighted_round_robin and            *)
(* _deficit_round_robin                                                     *)

(* execution_time = min(quantum, remaining).  A change that runs the whole  *)
(* quantum whatever is left is WholeQuantum.                                *)
WholeQuantum(quantum, remaining) == quantum

SliceLength(quantum, remaining) == MinOf(quantum, remaining)

(* request.time_quantum or 2: None and 0 are falsy.                         *)
DefaultQuantum == 2

(* A quantum ten times the one asked for.                                   *)
TenfoldQuantum(time_quantum) ==
  IF time_quantum = None \/ time_quantum = 0 THEN DefaultQuantum ELSE 10 * time_quantum

QuantumOrDefault(time_quantum) ==
  IF time_quantum = None \/ time_quantum = 0 THEN DefaultQuantum ELSE time_quantum

(* weights.get(p.id, 1.0), in halves.                                       *)
WeightOf(req, pid) ==
  IF pid \in DOMAIN req.process_weights THEN req.process_weights[pid] ELSE 2

(* max(1, int(base_quantum * weight)): int truncates towards zero.          *)
WeightedQuantum(base_quantum, weight2) ==
  LET twice == base_quantum * weight2
  IN MaxOf(1, IF twice >= 0 THEN twice \div 2 ELSE -((-twice) \div 2))

(* The ids that arrived first, in (arrival_time, id) order.                 *)
EarliestIds(req) ==
  LET ps == req.processes
      earliest_arrival == Min({ps[k].arrival_time : k \in 1..Len(ps)})
      ordered == Sorted(ps, [k \in 1..Len(ps) |-> <<ps[k].arrival_time, ps[k].id>>])
      first == SelectSeq(ordered, LAMBDA p : p.arrival_time = earliest_arrival)
  IN [k \in 1..Len(first) |-> first[k].id]

(* A process that enters the ready queue with no deficit.                   *)
NoReadyCredit(base_quantum) == 0

(* processes[pid]['deficit_counter'] = base_quantum of a process that       *)
(* enters the ready queue.                                                  *)
ReadyCredit(base_quantum) == base_quantum

(* The prologue of the three variants; min() of no arrival time raises.     *)
RoundRobinInit(f) ==
  LET req == f.req
      base_quantum == QuantumOrDefault(req.time_quantum)
      first == EarliestIds(req)
  IN IF req.processes = <<>> THEN [f EXCEPT !.pc = "raised", !.error = "ValueError"]
     ELSE [f EXCEPT
             !.pc = "loop",
             !.time_quantum = base_quantum,
             !.quantum = [pid \in IdsOf(req) |->
                            IF req.rr_variation = "weighted"
                            THEN WeightedQuantum(base_quantum, WeightOf(req, pid))
                            ELSE IF req.rr_variation = "deficit" THEN base_quantum
                            ELSE None],
             !.deficit_counter = [pid \in IdsOf(req) |->
                                    IF req.rr_variation = "deficit" /\ InSeq(pid, first)
                                    THEN ReadyCredit(base_quantum) ELSE 0],
             !.current_time = Min({req.processes[k].arrival_time : k \in 1..Len(req.processes)}),
             !.last_process = None,
             !.ready_queue = first]

RoundRobinCondition(f) == IF f.ready_queue # <<>> THEN TRUE ELSE WorkLeft(f)

(* An admission that also takes the processes with no work left.           *)
ArrivedOrDone(f, remaining, queue, t, skip) ==
  SelectSeq(DictOrder(f.req),
            LAMBDA pid : /\ ProcessOf(f.req, pid).arrival_time <= t
                         /\ ~InSeq(pid, queue)
                         /\ pid # skip)

(* The ids of the dict, in its order, that have arrived by time t with work *)
(* left and are neither queued nor the id skip.                             *)
Arrived(f, remaining, queue, t, skip) ==
  SelectSeq(DictOrder(f.req),
            LAMBDA pid : /\ ProcessOf(f.req, pid).arrival_time <= t
                         /\ remaining[pid] > 0
                         /\ ~InSeq(pid, queue)
                         /\ pid # skip)

(* "if not ready_queue": min() over the arrivals still to come; it raises   *)
(* when there is none.                                                      *)
RoundRobinIdle(f, s) ==
  LET coming == {ProcessOf(f.req, pid).arrival_time : pid \in
                   {q \in IdsOf(f.req) :
                      f.remaining[q] > 0
                      /\ ProcessOf(f.req, q).arrival_time > f.current_time}}
  IN IF coming = {} THEN Raise(f, s, "ValueError")
     ELSE Pass([f EXCEPT !.current_time = Min(coming),
                         !.jumps = Jump(@, f.current_time, Min(coming))], s)

(* A dispatch that forgets the deficit the process has.                     *)
QuantumOnly(deficit_counter, base_quantum) == base_quantum

(* deficit_counter += base_quantum at the dispatch.                         *)
Credited(deficit_counter, base_quantum) == deficit_counter + base_quantum

(* A re-enqueue ahead of the arrivals during the slice.                     *)
RequeueAheadOfLate(rest, late, pid, left) ==
  IF left > 0 THEN Append(rest, pid) \o late ELSE rest \o late

(* A re-enqueue at the head of the queue.                                   *)
RequeueAtHead(rest, late, pid, left) ==
  IF left > 0 THEN <<pid>> \o rest \o late ELSE rest \o late

(* The ready queue after a slice: the arrivals during the slice are         *)
(* appended, then the process that ran if it has work left.                 *)
Requeue(rest, late, pid, left) ==
  IF left > 0 THEN Append(rest \o late, pid) ELSE rest \o late

(* The part of a round-robin pass after the admission at its head: queue    *)
(* is the ready queue then, deficit the deficit counters, quantum the       *)
(* quantum of the dispatched process.                                       *)
DispatchHead(f, s, queue, deficit, quantum) ==
  LET current_process_id == Head(queue)
      p == ProcessOf(f.req, current_process_id)
      deficit1 == IF f.req.rr_variation = "deficit"
                  THEN [deficit EXCEPT ![current_process_id] = Credited(@, f.time_quantum)]
                  ELSE deficit
      cs == SwitchTo(f, s, current_process_id)
      t == cs.time
      response == FirstResponse(f.response_time[current_process_id], t, p.arrival_time)
      execution_time == SliceLength(quantum, f.remaining[current_process_id])
      remaining == [f.remaining EXCEPT ![current_process_id] = @ - execution_time]
      deficit2 == IF f.req.rr_variation = "deficit"
                  THEN [deficit1 EXCEPT ![current_process_id] = @ - execution_time]
                  ELSE deficit1
      now == t + execution_time
      late == Arrived(f, remaining, Tail(queue), now, current_process_id)
      deficit3 == IF f.req.rr_variation = "deficit"
                  THEN [pid \in DOMAIN deficit2 |->
                          IF InSeq(pid, late) THEN ReadyCredit(f.time_quantum)
                          ELSE deficit2[pid]]
                  ELSE deficit2
      left == remaining[current_process_id]
  IN Pass([f EXCEPT
             !.schedule = Append(cs.schedule,
                            ScheduleEntry(current_process_id, t, now, "execution", None)),
             !.response_time[current_process_id] = response,
             !.remaining = remaining,
             !.current_time = now,
             !.ready_queue = Requeue(Tail(queue), late, current_process_id, left),
             !.deficit_counter = IF f.req.rr_variation = "deficit" /\ ~(left > 0)
                                 THEN [deficit3 EXCEPT ![current_process_id] = 0]
                                 ELSE deficit3,
             !.results = IF left > 0 THEN @
                         ELSE Append(@, ProcessResult(p, now,
                                          WaitingTime(now, p), response)),
             !.last_process = IF left > 0 THEN current_process_id ELSE None],
          cs.svc)

(* Standard: the new arrivals join the queue sorted by id.                  *)
StandardRoundRobinIteration(f, s) ==
  LET new_arrivals == Arrived(f, f.remaining, f.ready_queue, f.current_time, None)
      queue == f.ready_queue
               \o Sorted(new_arrivals, [k \in 1..Len(new_arrivals) |-> <<new_arrivals[k]>>])
  IN IF queue = <<>> THEN RoundRobinIdle(f, s)
     ELSE DispatchHead(f, s, queue, f.deficit_counter, f.time_quantum)

(* Weighted: the new arrivals join the queue in the order of the dict.      *)
WeightedRoundRobinIteration(f, s) ==
  LET queue == f.ready_queue
               \o Arrived(f, f.remaining, f.ready_queue, f.current_time, None)
  IN IF queue = <<>> THEN RoundRobinIdle(f, s)
     ELSE DispatchHead(f, s, queue, f.deficit_counter, f.quantum[Head(queue)])

(* Deficit: a process that joins the queue starts with a counter of one     *)
(* quantum; the slice is the counter after the quantum added at dispatch.   *)
DeficitRoundRobinIteration(f, s) ==
  LET new_arrivals == Arrived(f, f.remaining, f.ready_queue, f.current_time, None)
      queue == f.ready_queue \o new_arrivals
      deficit == [pid \in DOMAIN f.deficit_counter |->
                    IF InSeq(pid, new_arrivals) THEN ReadyCredit(f.time_quantum)
                    ELSE f.deficit_counter[pid]]
  IN IF queue = <<>> THEN RoundRobinIdle(f, s)
     ELSE DispatchHead([f EXCEPT !.deficit_counter = deficit], s, queue, deficit,
                       Credited(deficit[Head(queue)], f.time_quantum))

-----------------------------------------------------------------------------
(* mlfq, _priority_boost_corrected and _apply_aging_corrected               *)
(* queues[l + 1] is the queue of level l.                                   *)

(* request.mlfq_config or MLFQConfig(): the Optional is <<>> or <<config>>.   *)
ConfigOf(req) == IF req.mlfq_config = <<>> THEN DefaultMLFQConfig ELSE req.mlfq_config[1]

InAnyQueue(pid, queues) == \E l \in 1..Len(queues) : InSeq(pid, queues[l])

(* any(queues)                                                              *)
AnyQueue(queues) == {l \in 1..Len(queues) : queues[l] # <<>>} # {}

(* The state of the queues that the helpers share.                          *)
QueueState(queues, queue_level, wait_start_time) ==
  [queues |-> queues, queue_level |-> queue_level, wait_start_time |-> wait_start_time]

(* An admission that does not look whether a queue holds the process.       *)
AdmitAgain(f, q, remaining, t, skip) ==
  LET new == SelectSeq(DictOrder(f.req),
                       LAMBDA pid : /\ ProcessOf(f.req, pid).arrival_time <= t
                                    /\ remaining[pid] > 0
                                    /\ pid # skip)
  IN IF new = <<>> THEN q
     ELSE QueueState([q.queues EXCEPT ![1] = @ \o new],
                     [pid \in DOMAIN q.queue_level |->
                        IF InSeq(pid, new) THEN 0 ELSE q.queue_level[pid]],
                     [pid \in DOMAIN q.wait_start_time |->
                        IF InSeq(pid, new) THEN t ELSE q.wait_start_time[pid]])

(* Admission: the ids of the dict, in its order, that have arrived with     *)
(* work left and are in no queue (nor the id skip) enter queue 0.           *)
Admit(f, q, remaining, t, skip) ==
  LET new == SelectSeq(DictOrder(f.req),
                       LAMBDA pid : /\ ProcessOf(f.req, pid).arrival_time <= t
                                    /\ remaining[pid] > 0
                                    /\ ~InAnyQueue(pid, q.queues)
                                    /\ pid # skip)
  IN IF new = <<>> THEN q
     ELSE QueueState([q.queues EXCEPT ![1] = @ \o new],
                     [pid \in DOMAIN q.queue_level |->
                        IF InSeq(pid, new) THEN 0 ELSE q.queue_level[pid]],
                     [pid \in DOMAIN q.wait_start_time |->
                        IF InSeq(pid, new) THEN t ELSE q.wait_start_time[pid]])

RECURSIVE ConcatFrom(_, _)
(* queues[i] \o queues[i + 1] \o ...                                        *)
ConcatFrom(queues, i) ==
  IF i > Len(queues) THEN <<>> ELSE queues[i] \o ConcatFrom(queues, i + 1)

(* _priority_boost_corrected: every queue below the top is emptied, in      *)
(* order, onto the end of queue 0.                                          *)
PriorityBoost(q, t) ==
  LET moved == ConcatFrom(q.queues, 2)
  IN QueueState([l \in 1..Len(q.queues) |->
                   IF l = 1 THEN q.queues[1] \o moved ELSE <<>>],
                [pid \in DOMAIN q.queue_level |->
                   IF InSeq(pid, moved) THEN 0 ELSE q.queue_level[pid]],
                [pid \in DOMAIN q.wait_start_time |->
                   IF InSeq(pid, moved) THEN t ELSE q.wait_start_time[pid]])

RECURSIVE AgeFrom(_, _, _, _)
(* The loop of _apply_aging_corrected from queue index i (level i - 1) on:  *)
(* the processes of the queue that waited for the threshold move one        *)
(* queue up.                                                                *)
AgeFrom(q, t, aging_threshold, i) ==
  IF i > Len(q.queues) THEN q
  ELSE LET promoted_processes ==
             SelectSeq(q.queues[i],
                       LAMBDA pid : t - q.wait_start_time[pid] >= aging_threshold)
           stay == SelectSeq(q.queues[i], LAMBDA pid : ~InSeq(pid, promoted_processes))
           new_queue_level == MaxOf(0, (i - 1) - 1)
           next == QueueState(
                     [l \in 1..Len(q.queues) |->
                        IF l = i THEN stay
                        ELSE IF l = new_queue_level + 1
                             THEN q.queues[l] \o promoted_processes
                             ELSE q.queues[l]],
                     [pid \in DOMAIN q.queue_level |->
                        IF InSeq(pid, promoted_processes) THEN new_queue_level
                        ELSE q.queue_level[pid]],
                     [pid \in DOMAIN q.wait_start_time |->
                        IF InSeq(pid, promoted_processes) THEN t
                        ELSE q.wait_start_time[pid]])
       IN AgeFrom(next, t, aging_threshold, i + 1)

(* An aging pass that takes every process of the lower queues to queue 0.   *)
AgeToTop(q, t, aging_threshold) == PriorityBoost(q, t)

(* _apply_aging_corrected                                                   *)
ApplyAging(q, t, aging_threshold) ==
  IF aging_threshold <= 0 THEN q ELSE AgeFrom(q, t, aging_threshold, 2)

(* The prologue of mlfq: min() of no arrival time raises, and so does       *)
(* queues[0] when there is no queue.                                        *)
MlfqInit(f) ==
  LET req == f.req
      config == ConfigOf(req)
      first == EarliestIds(req)
      earliest_arrival == Min({req.processes[k].arrival_time : k \in 1..Len(req.processes)})
  IN IF req.processes = <<>> THEN [f EXCEPT !.pc = "raised", !.error = "ValueError"]
     ELSE IF config.num_queues < 1 THEN [f EXCEPT !.pc = "raised", !.error = "IndexError"]
     ELSE [f EXCEPT
             !.pc = "loop",
             !.queues = [l \in 1..config.num_queues |-> IF l = 1 THEN first ELSE <<>>],
             !.queue_level = [pid \in IdsOf(req) |-> 0],
             !.wait_start_time = [pid \in IdsOf(req) |->
                                    IF InSeq(pid, first) THEN earliest_arrival
                                    ELSE ProcessOf(req, pid).arrival_time],
             !.current_time = earliest_arrival,
             !.last_process = None,
             !.last_boost_time = 0]

MlfqCondition(f) ==
  IF f.broke THEN FALSE ELSE IF AnyQueue(f.queues) THEN TRUE ELSE WorkLeft(f)

(* A boost that is never due.                                               *)
BoostNeverDue(config, t, last_boost_time) == FALSE

(* The boost is due at time t.                                              *)
BoostDue(config, t, last_boost_time) ==
  /\ config.priority_boost
  /\ config.boost_interval > 0
  /\ t >= config.boost_interval
  /\ t - last_boost_time >= config.boost_interval

(* The queues of a pass when its aging pass begins: after admission and    *)
(* boost at the current time.                                               *)
BeforeAging(f) ==
  LET config == ConfigOf(f.req)
      q0 == Admit(f, QueueState(f.queues, f.queue_level, f.wait_start_time),
                  f.remaining, f.current_time, None)
  IN IF BoostDue(config, f.current_time, f.last_boost_time)
     THEN PriorityBoost(q0, f.current_time) ELSE q0

(* The queues at the dispatch decision of a pass: after the aging pass.     *)
AtDecision(f) ==
  IF ConfigOf(f.req).aging_threshold > 0
  THEN ApplyAging(BeforeAging(f), f.current_time, ConfigOf(f.req).aging_threshold)
  ELSE BeforeAging(f)

(* The level of the queue that holds the process, None when none does.      *)
LevelIn(queues, pid) ==
  IF InAnyQueue(pid, queues)
  THEN Min({l \in 0..(Len(queues) - 1) : InSeq(pid, queues[l + 1])})
  ELSE None

(* The history of promotions after the aging pass that turned the queues    *)
(* before into the queues after at time t.                                  *)
Promoted(promotions, before, after, t) ==
  [pid \in DOMAIN promotions |->
     IF LevelIn(after, pid) # LevelIn(before, pid)
     THEN Append(promotions[pid], [time |-> t, from |-> LevelIn(before, pid),
                                   to |-> LevelIn(after, pid)])
     ELSE promotions[pid]]

(* time_quantums[level], or the last one for a level past the list.         *)
QuantumOfLevel(config, level) ==
  IF level < Len(config.time_quantums) THEN config.time_quantums[level + 1]
  ELSE config.time_quantums[Len(config.time_quantums)]

(* A process that stays in the queue it was dispatched from.                *)
NeverDemoted(execution_time, time_quantum, current_queue_level, num_queues) == FALSE

(* The process with work left goes one queue down: it used the quantum up  *)
(* and is not in the last queue.                                            *)
Demoted(execution_time, time_quantum, current_queue_level, num_queues) ==
  execution_time >= time_quantum /\ current_queue_level < num_queues - 1

(* The levels of the queues that are not empty.                             *)
NonEmptyLevels(queues, num_queues) ==
  {l \in 0..(num_queues - 1) : queues[l + 1] # <<>>}

(* A dispatch from the last of the queues that are not empty.               *)
HighestLevel(levels) == Max(levels)

(* for i in range(num_queues): if queues[i]: current_queue_level = i; break *)
CurrentQueueLevel(levels) == Min(levels)

MlfqIteration(f, s) ==
  LET config == ConfigOf(f.req)
      q == AtDecision(f)
      last_boost_time == IF BoostDue(config, f.current_time, f.last_boost_time)
                         THEN f.current_time ELSE f.last_boost_time
      g == [f EXCEPT !.queues = q.queues, !.queue_level = q.queue_level,
                     !.wait_start_time = q.wait_start_time,
                     !.last_boost_time = last_boost_time,
                     !.promotions = Promoted(@, BeforeAging(f).queues, q.queues,
                                             f.current_time)]
      levels == NonEmptyLevels(q.queues, config.num_queues)
  IN IF levels = {}
     THEN LET next_arrivals == {ProcessOf(f.req, pid).arrival_time : pid \in
                                  {p \in IdsOf(f.req) :
                                     f.remaining[p] > 0
                                     /\ ProcessOf(f.req, p).arrival_time > f.current_time}}
          IN IF next_arrivals # {}
             THEN Pass([g EXCEPT !.current_time = Min(next_arrivals),
                                 !.jumps = Jump(@, f.current_time, Min(next_arrivals))], s)
             ELSE Pass([g EXCEPT !.broke = TRUE], s)
     ELSE
       LET current_queue_level == CurrentQueueLevel(levels)
           current_process_id == Head(q.queues[current_queue_level + 1])
           p == ProcessOf(f.req, current_process_id)
           popped == [q EXCEPT !.queues[current_queue_level + 1] = Tail(@)]
           cs == IF f.last_process # None /\ f.last_process # current_process_id
                 THEN AddContextSwitch(s, f.schedule, f.current_time, f.last_process)
                 ELSE NoSwitch(s, f.schedule, f.current_time)
           t == cs.time
           response == FirstResponse(f.response_time[current_process_id], t, p.arrival_time)
           time_quantum == QuantumOfLevel(config, current_queue_level)
           execution_time == SliceLength(time_quantum, f.remaining[current_process_id])
           remaining == [f.remaining EXCEPT ![current_process_id] = @ - execution_time]
           now == t + execution_time
           admitted == Admit(f, popped, remaining, now, current_process_id)
           left == remaining[current_process_id]
           demoted == Demoted(execution_time, time_quantum, current_queue_level,
                              config.num_queues)
           new_queue_level == IF demoted THEN current_queue_level + 1
                              ELSE current_queue_level
           requeued ==
             IF left > 0
             THEN QueueState(
                    [admitted.queues EXCEPT ![new_queue_level + 1] =
                                               Append(@, current_process_id)],
                    IF demoted
                    THEN [admitted.queue_level EXCEPT ![current_process_id] = new_queue_level]
                    ELSE admitted.queue_level,
                    [admitted.wait_start_time EXCEPT ![current_process_id] = now])
             ELSE admitted
       IN Pass([g EXCEPT
                  !.schedule = Append(cs.schedule,
                                 ScheduleEntry(current_process_id, t, now, "execution",
                                               current_queue_level)),
                  !.response_time[current_process_id] = response,
                  !.remaining = remaining,
                  !.current_time = now,
                  !.queues = requeued.queues,
                  !.queue_level = requeued.queue_level,
                  !.wait_start_time = requeued.wait_start_time,
                  !.results = IF left > 0 THEN @
                              ELSE Append(@, ProcessResult(p, now,
                                               WaitingTime(now, p), response)),
                  !.last_process = IF left > 0 THEN current_process_id ELSE None],
               cs.svc)

-----------------------------------------------------------------------------
(* The calls.                                                               *)

(* The loop a request runs: the public method and its dispatch.             *)
LoopOf(req) ==
  CASE req.method = "fcfs" -> "fcfs"
    [] req.method = "sjf" ->
         IF req.preemptive THEN "srtf" ELSE "sjf_non_preemptive"
    [] req.method = "priority_scheduling" ->
         IF req.preemptive THEN "priority_preemptive" ELSE "priority_non_preemptive"
    [] req.method = "round_robin" ->
         IF req.rr_variation = "weighted" THEN "weighted_round_robin"
         ELSE IF req.rr_variation = "deficit" THEN "deficit_round_robin"
         ELSE "standard_round_robin"
    [] req.method = "mlfq" -> "mlfq"

(* Only the first of the two: the count of an earlier call is kept.         *)
EnterKeepingCount(s, req) ==
  [s EXCEPT !.context_switch_cost = req.context_switch_cost]

(* The first two statements of every public method.                         *)
Enter(s, req) ==
  [s EXCEPT !.context_switch_cost = req.context_switch_cost, !.context_switches = 0]

(* The prologue of the loop a request runs.                                 *)
Prologue(f) ==
  CASE LoopOf(f.req) = "fcfs" -> FcfsInit(f)
    [] LoopOf(f.req) \in {"sjf_non_preemptive", "priority_non_preemptive"} -> SjfInit(f)
    [] LoopOf(f.req) \in {"srtf", "priority_preemptive"} -> PreemptiveInit(f)
    [] LoopOf(f.req) \in {"standard_round_robin", "weighted_round_robin",
                          "deficit_round_robin"} -> RoundRobinInit(f)
    [] LoopOf(f.req) = "mlfq" -> MlfqInit(f)

(* The condition of the loop a frame is in.                                 *)
Condition(f) ==
  CASE LoopOf(f.req) = "fcfs" -> FcfsCondition(f)
    [] LoopOf(f.req) \in {"sjf_non_preemptive", "priority_non_preemptive"} ->
         NonPreemptiveCondition(f)
    [] LoopOf(f.req) \in {"srtf", "priority_preemptive"} -> PreemptiveCondition(f)
    [] LoopOf(f.req) \in {"standard_round_robin", "weighted_round_robin",
                          "deficit_round_robin"} -> RoundRobinCondition(f)
    [] LoopOf(f.req) = "mlfq" -> MlfqCondition(f)

(* The calls that can be in progress at once.                               *)
RunIds == {1, 2}

InLoop(r, loop) ==
  /\ r \in DOMAIN runs
  /\ runs[r].pc = "loop"
  /\ LoopOf(runs[r].req) = loop
  /\ Condition(runs[r])

Take(r, pass) ==
  /\ runs' = [runs EXCEPT ![r] = pass.frame]
  /\ svc' = pass.svc
  /\ UNCHANGED <<hist, http, manager>>

(* A public method is entered: the service fields are set and the locals    *)
(* of the loop initialised.                                                 *)
Call(r) ==
  /\ r \in DOMAIN runs
  /\ runs[r].pc = "call"
  /\ Take(r, Pass(Prologue(runs[r]), Enter(svc, runs[r].req)))

Fcfs(r) ==
  /\ InLoop(r, "fcfs")
  /\ Take(r, FcfsIteration(runs[r], svc))

SjfNonPreemptive(r) ==
  /\ InLoop(r, "sjf_non_preemptive")
  /\ Take(r, SjfNonPreemptiveIteration(runs[r], svc))

Srtf(r) ==
  /\ InLoop(r, "srtf")
  /\ Take(r, SrtfIteration(runs[r], svc))

PriorityNonPreemptive(r) ==
  /\ InLoop(r, "priority_non_preemptive")
  /\ Take(r, PriorityNonPreemptiveIteration(runs[r], svc))

PriorityPreemptive(r) ==
  /\ InLoop(r, "priority_preemptive")
  /\ Take(r, PriorityPreemptiveIteration(runs[r], svc))

StandardRoundRobin(r) ==
  /\ InLoop(r, "standard_round_robin")
  /\ Take(r, StandardRoundRobinIteration(runs[r], svc))

WeightedRoundRobin(r) ==
  /\ InLoop(r, "weighted_round_robin")
  /\ Take(r, WeightedRoundRobinIteration(runs[r], svc))

DeficitRoundRobin(r) ==
  /\ InLoop(r, "deficit_round_robin")
  /\ Take(r, DeficitRoundRobinIteration(runs[r], svc))

Mlfq(r) ==
  /\ InLoop(r, "mlfq")
  /\ Take(r, MlfqIteration(runs[r], svc))

(* After the loop: self.total_time, the metrics, and the result.            *)
Finish(f, s) ==
  LET s1 == [s EXCEPT !.total_time = f.current_time]
  IN Pass([f EXCEPT !.pc = "done",
                    !.metrics = CalculateMetrics(s1, f.results, f.current_time)], s1)

Return(r) ==
  /\ r \in DOMAIN runs
  /\ runs[r].pc = "loop"
  /\ ~Condition(runs[r])
  /\ Take(r, Finish(runs[r], svc))

Next ==
  \E r \in RunIds :
    \/ Call(r)
    \/ Fcfs(r)
    \/ SjfNonPreemptive(r)
    \/ Srtf(r)
    \/ PriorityNonPreemptive(r)
    \/ PriorityPreemptive(r)
    \/ StandardRoundRobin(r)
    \/ WeightedRoundRobin(r)
    \/ DeficitRoundRobin(r)
    \/ Mlfq(r)
    \/ Return(r)

(* One pass of the loop a frame is in.                                       *)
Iteration(f, s) ==
  CASE LoopOf(f.req) = "fcfs" -> FcfsIteration(f, s)
    [] LoopOf(f.req) = "sjf_non_preemptive" -> SjfNonPreemptiveIteration(f, s)
    [] LoopOf(f.req) = "srtf" -> SrtfIteration(f, s)
    [] LoopOf(f.req) = "priority_non_preemptive" -> PriorityNonPreemptiveIteration(f, s)
    [] LoopOf(f.req) = "priority_preemptive" -> PriorityPreemptiveIteration(f, s)
    [] LoopOf(f.req) = "standard_round_robin" -> StandardRoundRobinIteration(f, s)
    [] LoopOf(f.req) = "weighted_round_robin" -> WeightedRoundRobinIteration(f, s)
    [] LoopOf(f.req) = "deficit_round_robin" -> DeficitRoundRobinIteration(f, s)
    [] LoopOf(f.req) = "mlfq" -> MlfqIteration(f, s)

(* A call from its loop to its end with no other call of the service in     *)
(* between.                                                                 *)
RECURSIVE RunLoop(_, _)
RunLoop(f, s) ==
  IF f.pc # "loop" THEN f
  ELSE IF Condition(f)
       THEN LET pass == Iteration(f, s) IN RunLoop(pass.frame, pass.svc)
       ELSE Finish(f, s).frame

(* The frame in which a call of a service of its own ends.                  *)
Alone(req) == RunLoop(Prologue(NewFrame(req)), Enter(ServiceInit, req))

-----------------------------------------------------------------------------
(* The requests that are drawn.                                             *)

Pids == {1, 2, 3}

(* The orders in which a request lists its processes.                       *)
Orders == {o \in [1..Cardinality(Pids) -> Pids] : \A i, j \in DOMAIN o : o[i] = o[j] => i = j}

IdOrder == [k \in 1..Cardinality(Pids) |-> k]

Costs == {0, 1}

(* The process lists with the given orders and, by id, arrival times,       *)
(* burst times and priorities.                                              *)
Workloads(orders, arrivals, bursts, priorities) ==
  {[k \in 1..Cardinality(Pids) |-> Process(o[k], a[o[k]], b[o[k]], pr[o[k]])] :
     o \in orders, a \in arrivals, b \in bursts, pr \in priorities}

ValidArrivals == [Pids -> 0..MaxArrival]

ValidBursts == [Pids -> 1..MaxBurst]

NoPriorities == {[pid \in Pids |-> 0]}

NoWeights == <<>>

FcfsRequests(workloads) ==
  {SchedulingRequest("fcfs", w, None, c, FALSE, "standard", NoWeights, "fixed", <<>>) :
     w \in workloads, c \in Costs}

SjfRequests(workloads) ==
  {SchedulingRequest("sjf", w, None, c, pre, "standard", NoWeights, "fixed", <<>>) :
     w \in workloads, c \in Costs, pre \in BOOLEAN}

PriorityRequests(workloads, types) ==
  {SchedulingRequest("priority_scheduling", w, None, c, pre, "standard", NoWeights, ty, <<>>) :
     w \in workloads, c \in Costs, pre \in BOOLEAN, ty \in types}

RoundRobinRequests(workloads, quanta, variations, weights) ==
  {SchedulingRequest("round_robin", w, tq, c, FALSE, v, wt, "fixed", <<>>) :
     w \in workloads, c \in Costs, tq \in quanta, v \in variations, wt \in weights}

MlfqRequests(workloads, configs) ==
  {SchedulingRequest("mlfq", w, None, c, FALSE, "standard", NoWeights, "fixed", cfg) :
     w \in workloads, c \in Costs, cfg \in configs}

(* Two queues with quanta 1 and 2, aging after 2 ticks, a boost every 4.    *)
SmallMlfq == MLFQConfig(2, <<1, 2>>, 2, 4, TRUE)

(* The orders in which the requests list their processes: by id, reversed,  *)
(* and rotated.                                                             *)
ListOrders == {<<1, 2, 3>>, <<3, 2, 1>>, <<2, 3, 1>>}

TwoOrders == {<<1, 2, 3>>, <<3, 2, 1>>}

(* The priority assignments of the requests (index: id).                    *)
PriorityMaps == {<<1, 0, 1>>, <<0, 1, 2>>}

(* Requests of every method and variant over the given arrival and burst   *)
(* times.                                                                   *)
RequestsOver(arrivals, bursts) ==
  FcfsRequests(Workloads(ListOrders, arrivals, bursts, NoPriorities))
  \cup SjfRequests(Workloads({IdOrder}, arrivals, bursts, NoPriorities))
  \cup PriorityRequests(Workloads({IdOrder}, arrivals, bursts, PriorityMaps),
                        {"fixed", "dynamic"})
  \cup RoundRobinRequests(Workloads(TwoOrders, arrivals, bursts, NoPriorities),
                          {1, 2}, {"standard"}, {NoWeights})
  \cup RoundRobinRequests(Workloads(TwoOrders, arrivals, bursts, NoPriorities),
                          {1}, {"deficit"}, {NoWeights})
  \cup RoundRobinRequests(Workloads(TwoOrders, arrivals, bursts, NoPriorities),
                          {1}, {"weighted"}, {[pid \in {1} |-> 4]})
  \cup MlfqRequests(Workloads(TwoOrders, arrivals, bursts, NoPriorities),
                    {<<SmallMlfq>>})

-----------------------------------------------------------------------------
(* The terminal's process manager (services/process_manager.py): the        *)
(* process table, the pid counter, the command history and the system-call  *)
(* log of the module's one ProcessManager.                                  *)
(*                                                                          *)
(* A string that a handler parses or searches (an argument, a process name, *)
(* a command line) is the sequence of its characters.  The fields that no   *)
(* handler reads back (priority, memory_usage, start_time, cpu_time, the    *)
(* trap table, the arguments kept in the history and in the log) are left   *)
(* out.                                                                     *)

(* Commands executed in one session.                                        *)
MaxCommands == 3

ProcessState ==
  [READY |-> "ready", RUNNING |-> "running", BLOCKED |-> "blocked",
   TERMINATED |-> "terminated", ZOMBIE |-> "zombie"]

Digits == <<"0", "1", "2", "3", "4", "5", "6", "7", "8", "9">>

IsDigit(c) == c \in Range(Digits)

DigitValue(c) == (CHOOSE i \in DOMAIN Digits : Digits[i] = c) - 1

(* int(text): the value of an optionally signed run of digits, and          *)
(* ValueError (IsInt false) for anything else.                              *)
Unsigned(text) == IF text # <<>> /\ Head(text) \in {"-", "+"} THEN Tail(text) ELSE text

IsInt(text) ==
  /\ Unsigned(text) # <<>>
  /\ \A i \in DOMAIN Unsigned(text) : IsDigit(Unsigned(text)[i])

RECURSIVE DigitsValue(_)
DigitsValue(digits) ==
  IF digits = <<>> THEN 0
  ELSE 10 * DigitsValue(SubSeq(digits, 1, Len(digits) - 1))
       + DigitValue(digits[Len(digits)])

IntOf(text) ==
  IF Head(text) = "-" THEN 0 - DigitsValue(Unsigned(text))
  ELSE DigitsValue(Unsigned(text))

(* str.lower() and the substring test `pattern in text`.                    *)
Lower(text) ==
  [i \in DOMAIN text |->
     CASE text[i] = "A" -> "a" [] text[i] = "B" -> "b" [] OTHER -> text[i]]

Contains(pattern, text) ==
  \E i \in 1..(Len(text) - Len(pattern) + 1) :
    SubSeq(text, i, i + Len(pattern) - 1) = pattern

(* ' '.join(args)                                                           *)
RECURSIVE Join(_)
Join(args) ==
  IF args = <<>> THEN <<>>
  ELSE IF Len(args) = 1 THEN args[1]
  ELSE args[1] \o <<" ">> \o Join(Tail(args))

(* ProcessManager(): the kernel (pid 0) and init (pid 1), both RUNNING.     *)
NewProcessManager ==
  [processes |->
     [pid \in {0, 1} |->
        IF pid = 0
        THEN [pid |-> 0, ppid |-> None,
              name |-> <<"[", "k", "e", "r", "n", "e", "l", "]">>,
              state |-> ProcessState.RUNNING,
              command |-> <<"[", "k", "e", "r", "n", "e", "l", "]">>,
              exit_code |-> None, children |-> <<1>>]
        ELSE [pid |-> 1, ppid |-> 0,
              name |-> <<"i", "n", "i", "t">>,
              state |-> ProcessState.RUNNING,
              command |-> <<"/", "s", "b", "i", "n", "/", "i", "n", "i", "t">>,
              exit_code |-> None, children |-> <<>>]],
   next_pid |-> 2,
   system_calls |-> <<>>,
   command_history |-> <<>>,
   aliases |-> [command \in {"h", "p"} |-> IF command = "h" THEN "help" ELSE "ps"]]

LogSystemCall(m, call_name) ==
  [m EXCEPT !.system_calls = Append(@, call_name)]

SetState(m, pid, state, exit_code) ==
  [m EXCEPT !.processes[pid].state = state,
            !.processes[pid].exit_code = exit_code]

CmdFork(m, args) ==
  IF args = <<>> THEN m
  ELSE LET process_name == args[1]
           command == IF Len(args) > 1 THEN Join(args)
                      ELSE <<"f", "o", "r", "k", " ">> \o process_name
           new_process == [pid |-> m.next_pid, ppid |-> 1,
                           name |-> process_name,
                           state |-> ProcessState.READY,
                           command |-> command,
                           exit_code |-> None, children |-> <<>>]
           logged == LogSystemCall(m, "fork")
       IN  [logged EXCEPT
              !.processes =
                 [pid \in DOMAIN m.processes \cup {m.next_pid} |->
                    IF pid = m.next_pid THEN new_process
                    ELSE IF pid = 1
                    THEN [m.processes[1] EXCEPT
                            !.children = Append(@, m.next_pid)]
                    ELSE m.processes[pid]],
              !.next_pid = @ + 1]

(* The signal and the PID argument that kill reads from its arguments;     *)
(* usage is TRUE when it returns an error instead.                          *)
KillArguments(args) ==
  IF args = <<>> THEN [usage |-> TRUE, signal |-> 15, pid_arg |-> <<>>]
  ELSE IF args[1] # <<>> /\ Head(args[1]) = "-"
  THEN IF ~IsInt(Tail(args[1])) \/ Len(args) < 2
       THEN [usage |-> TRUE, signal |-> 15, pid_arg |-> <<>>]
       ELSE [usage |-> FALSE, signal |-> IntOf(Tail(args[1])), pid_arg |-> args[2]]
  ELSE [usage |-> FALSE, signal |-> 15, pid_arg |-> args[1]]

CmdKill(m, args) ==
  LET read == KillArguments(args)
      pid == IntOf(read.pid_arg)
      signal == read.signal
  IN  IF read.usage \/ ~IsInt(read.pid_arg) THEN m
      ELSE IF pid \notin DOMAIN m.processes THEN m
      ELSE IF pid \in {0, 1} THEN m
      ELSE LogSystemCall(
             IF signal = 9 \/ signal = 15
             THEN SetState(m, pid, ProcessState.TERMINATED, signal)
             ELSE IF signal = 19
             THEN [m EXCEPT !.processes[pid].state = ProcessState.BLOCKED]
             ELSE IF signal = 18
             THEN [m EXCEPT !.processes[pid].state = ProcessState.READY]
             ELSE m,
             "kill")

CmdWait(m, args) ==
  IF args = <<>> \/ ~IsInt(args[1]) THEN m
  ELSE LET pid == IntOf(args[1])
       IN  IF pid \in DOMAIN m.processes
              /\ m.processes[pid].state # ProcessState.TERMINATED
           THEN SetState(m, pid, ProcessState.TERMINATED, 0)
           ELSE m

CmdSleep(m, args) ==
  IF args = <<>> \/ ~IsInt(args[1]) THEN m
  ELSE LET pid == IntOf(args[1])
       IN  IF pid \in DOMAIN m.processes /\ pid \notin {0, 1}
           THEN [m EXCEPT !.processes[pid].state = ProcessState.BLOCKED]
           ELSE m

(* pkill and killall: every process other than 0 and 1 that matches.        *)
Terminate(m, matching) ==
  [m EXCEPT !.processes =
     [pid \in DOMAIN m.processes |->
        IF pid \notin {0, 1} /\ pid \in matching
        THEN [m.processes[pid] EXCEPT !.state = ProcessState.TERMINATED,
                                      !.exit_code = 15]
        ELSE m.processes[pid]]]

CmdPkill(m, args) ==
  IF args = <<>> THEN m
  ELSE LET pattern == Lower(args[1])
       IN  Terminate(m, {pid \in DOMAIN m.processes :
                           \/ Contains(pattern, Lower(m.processes[pid].name))
                           \/ Contains(pattern, Lower(m.processes[pid].command))})

CmdKillall(m, args) ==
  IF args = <<>> THEN m
  ELSE Terminate(m, {pid \in DOMAIN m.processes : m.processes[pid].name = args[1]})

(* execute_command: the alias is expanded, the typed command is appended    *)
(* to the history, the call is logged and the handler of the command map   *)
(* runs; a command the map does not have, and a handler that only prints,  *)
(* change nothing more.                                                     *)
ExecuteCommand(m, typed, args) ==
  LET command == IF typed \in DOMAIN m.aliases THEN m.aliases[typed] ELSE typed
      logged == LogSystemCall(
                  [m EXCEPT !.command_history = Append(@, typed)], "exec")
  IN  CASE command = "fork" -> CmdFork(logged, args)
        [] command = "kill" -> CmdKill(logged, args)
        [] command = "wait" -> CmdWait(logged, args)
        [] command = "sleep" -> CmdSleep(logged, args)
        [] command = "pkill" -> CmdPkill(logged, args)
        [] command = "killall" -> CmdKillall(logged, args)
        [] OTHER -> logged

-----------------------------------------------------------------------------
(* History of the calls made of one service: how many ended before the     *)
(* one in progress, the request and outcome of the first, and the service   *)
(* fields the call in progress found.                                       *)
NoHistory == [served |-> 0, first |-> <<>>, entered |-> ServiceInit]

(* One call of the service with the request, nothing served before.         *)
(* No HTTP request: the service is called directly.                         *)
NoExchange == [pc |-> "none"]

Submitted(req) ==
  /\ svc = ServiceInit
  /\ runs = [r \in {1} |-> NewFrame(req)]
  /\ hist = NoHistory
  /\ http = NoExchange
  /\ manager = NewProcessManager

(* A valid request of any method and variant.                               *)
Init ==
  \E a \in ValidArrivals, b \in ValidBursts :
    \E req \in RequestsOver({a}, {b}) : Submitted(req)

Spec == Init /\ [][Next]_vars

(* Arrival times from -1 and burst times from 0, not all of them valid.     *)
SomeInvalid ==
  {ab \in [Pids -> -1..1] \X [Pids -> 0..1] :
     {pid \in Pids : ab[1][pid] < 0 \/ ab[2][pid] <= 0} # {}}

(* Round-robin requests over valid workloads with no time_quantum, with 0,  *)
(* and for the weighted variant with a negative one.                        *)
BadQuantumRequests(arrivals, bursts) ==
  RoundRobinRequests(Workloads({IdOrder}, arrivals, bursts, NoPriorities),
                     {None, 0}, {"standard", "deficit", "weighted"}, {NoWeights})
  \cup RoundRobinRequests(Workloads({IdOrder}, arrivals, bursts, NoPriorities),
                          {-1}, {"weighted"}, {NoWeights})

(* A request that is not valid: a process with burst_time <= 0 or           *)
(* arrival_time < 0, or a round-robin request without a positive quantum.   *)
InitInvalid ==
  \/ \E ab \in SomeInvalid :
       \E req \in RequestsOver({ab[1]}, {ab[2]}) : Submitted(req)
  \/ \E a \in [Pids -> 0..1], b \in [Pids -> 1..2] :
       \E req \in BadQuantumRequests({a}, {b}) : Submitted(req)

SpecInvalid == InitInvalid /\ [][Next]_vars

(* One workload under every method and variant, with and without a          *)
(* context switch cost.                                                     *)
MixedRequests ==
  LET w == Workloads({IdOrder}, {<<0, 1, 2>>}, {<<2, 2, 2>>}, {<<1, 0, 1>>})
  IN FcfsRequests(w) \cup SjfRequests(w)
     \cup PriorityRequests(w, {"fixed", "dynamic"})
     \cup RoundRobinRequests(w, {1}, {"standard", "deficit", "weighted"}, {NoWeights})
     \cup MlfqRequests(w, {<<SmallMlfq>>})

(* The calls made of one service before the history stops.                  *)
MaxServed == 3

(* After a call ended the same service is called again, with any request.   *)
CallAgain(r) ==
  /\ r \in DOMAIN runs
  /\ Ended(runs[r])
  /\ hist.served + 1 < MaxServed
  /\ \E req \in MixedRequests :
       runs' = [runs EXCEPT ![r] = NewFrame(req)]
  /\ hist' = [served |-> hist.served + 1,
              first |-> IF hist.first = <<>>
                        THEN <<[req |-> runs[r].req, outcome |-> Outcome(runs[r])]>>
                        ELSE hist.first,
              entered |-> svc]
  /\ UNCHANGED <<svc, http, manager>>

InitSeq == \E req \in MixedRequests : Submitted(req)

NextSeq == Next \/ \E r \in RunIds : CallAgain(r)

(* Calls of one service, one after the other.                               *)
SpecSeq == InitSeq /\ [][NextSeq]_vars

(* Two calls of one service in progress at once, their loop passes          *)
(* interleaved.                                                             *)
InitConc ==
  /\ svc = ServiceInit
  /\ \E req1, req2 \in MixedRequests :
       runs = [r \in RunIds |-> NewFrame(IF r = 1 THEN req1 ELSE req2)]
  /\ hist = NoHistory
  /\ http = NoExchange
  /\ manager = NewProcessManager

SpecConc == InitConc /\ [][Next]_vars

(* Requests with no process, of every method and variant.                   *)
EmptyRequests ==
  FcfsRequests({<<>>}) \cup SjfRequests({<<>>})
  \cup PriorityRequests({<<>>}, {"fixed", "dynamic"})
  \cup RoundRobinRequests({<<>>}, {1}, {"standard", "deficit", "weighted"}, {NoWeights})
  \cup MlfqRequests({<<>>}, {<<>>, <<SmallMlfq>>})

(* A request with no process, or one of the mixed requests.                 *)
InitEmpty == \E req \in EmptyRequests \cup MixedRequests : Submitted(req)

SpecEmpty == InitEmpty /\ [][Next]_vars

(* The workloads of the three worked scenarios: four processes for fcfs,    *)
(* four for round robin with quantum 2, and a single process.               *)
FcfsScenario ==
  <<Process(1, 0, 8, 0), Process(2, 1, 4, 0), Process(3, 2, 9, 0), Process(4, 3, 5, 0)>>

RoundRobinScenario ==
  <<Process(1, 0, 8, 0), Process(2, 1, 4, 0), Process(3, 2, 6, 0), Process(4, 3, 3, 0)>>

SingleProcess == <<Process(1, 0, 5, 0)>>

(* The scenario workloads under every method and variant, with the default  *)
(* configuration (no time_quantum, no mlfq_config) and with quantum 2.      *)
ScenarioRequests ==
  LET w == {FcfsScenario, RoundRobinScenario, SingleProcess}
  IN FcfsRequests(w) \cup SjfRequests(w)
     \cup PriorityRequests(w, {"fixed", "dynamic"})
     \cup RoundRobinRequests(w, {None, 2}, {"standard", "deficit", "weighted"}, {NoWeights})
     \cup MlfqRequests(w, {<<>>})

InitScenario == \E req \in ScenarioRequests : Submitted(req)

SpecScenario == InitScenario /\ [][Next]_vars

(* Preemptive sjf requests of two and of three processes, with burst times  *)
(* two longer than elsewhere, so that a process can arrive with less work   *)
(* than the running one has left, and with context switch costs up to 2.    *)
SrtfRequests(arrivals, bursts) ==
  {SchedulingRequest("sjf", SubSeq(w, 1, n), None, c, TRUE, "standard", NoWeights, "fixed", <<>>) :
     w \in Workloads({IdOrder}, arrivals, bursts, NoPriorities), n \in {2, 3}, c \in {0, 1, 2}}

InitSrtf ==
  \/ \E a \in ValidArrivals, b \in [Pids -> 1..(MaxBurst + 2)] :
       \E req \in SrtfRequests({a}, {b}) : Submitted(req)
  \/ \E req \in MixedRequests : Submitted(req)

SpecSrtf == InitSrtf /\ [][Next]_vars

(* Three queues with quanta 1, 1 and 2, aging after 2 ticks, no boost.      *)
ThreeQueues == MLFQConfig(3, <<1, 1, 2>>, 2, 100, FALSE)

(* Three queues with one quantum listed, no aging, a boost every 3.         *)
OneQuantumListed == MLFQConfig(3, <<1>>, 0, 3, TRUE)

(* mlfq requests with burst times two longer than elsewhere, so that a      *)
(* process can use up the quantum of every queue and wait in the lower      *)
(* ones; a context switch costs 1.                                          *)
LongMlfqRequests(arrivals, bursts) ==
  {SchedulingRequest("mlfq", w, None, 1, FALSE, "standard", NoWeights, "fixed", cfg) :
     w \in Workloads({IdOrder}, arrivals, bursts, NoPriorities),
     cfg \in {<<SmallMlfq>>, <<ThreeQueues>>, <<OneQuantumListed>>}}

InitMlfq ==
  \/ \E a \in ValidArrivals, b \in [Pids -> 1..(MaxBurst + 2)] :
        \E req \in LongMlfqRequests({a}, {b}) : Submitted(req)
  \/ \E req \in MixedRequests : Submitted(req)

SpecMlfq == InitMlfq /\ [][Next]_vars

(* Priority requests in which a process waits for ten ticks and more, so    *)
(* that the aging bonus of the dynamic priority is not 0: process 1 runs    *)
(* from 0 for ten ticks while process 2 waits, and process 3 arrives at 10. *)
AgingRequests ==
  PriorityRequests({<<Process(1, 0, 10, p[1]), Process(2, 0, 1, p[2]), Process(3, 10, 1, p[3])>> :
                      p \in [1..3 -> 0..2]},
                   {"fixed", "dynamic"})

InitAging == \E req \in AgingRequests \cup MixedRequests : Submitted(req)

SpecAging == InitAging /\ [][Next]_vars

-----------------------------------------------------------------------------
(* The request layer: schedule_processes of endpoints/cpu.py.               *)

(* The fields of the request that the handler reads.                        *)
CPUScheduleRequest(algo, processes, time_quantum, context_switch_cost, preemptive, mlfq_config) ==
  [algo |-> algo, processes |-> processes,
   config |-> [time_quantum |-> time_quantum, context_switch_cost |-> context_switch_cost,
               preemptive |-> preemptive, mlfq_config |-> mlfq_config]]

(* An exception: its class, and the text str() gives for it.                *)
Exception(type, text) == [type |-> type, text |-> text]

(* raise HTTPException(status_code=..., detail=...); the detail is a text   *)
(* and the exception whose str() is put into it, if any.                    *)
HTTPException(status_code, text, cause) ==
  [type |-> "HTTPException", status_code |-> status_code,
   text |-> text, cause |-> cause]

NoCause == Exception("", "")

(* return APIResponse(success=True, message=..., data=result)               *)
APIResponse(data) ==
  [type |-> "APIResponse", status_code |-> 200, text |-> "scheduling completed successfully",
   cause |-> NoCause, data |-> data]

(* not request.config.time_quantum or request.config.time_quantum <= 0      *)
QuantumMissing(request) ==
  IF request.config.time_quantum = None THEN TRUE
  ELSE request.config.time_quantum <= 0

(* The method of the engine that the handler calls for an algorithm name.   *)
MethodOf(algo) ==
  CASE algo = "FCFS" -> "fcfs"
    [] algo = "SJF" -> "sjf"
    [] algo = "Priority" -> "priority_scheduling"
    [] algo = "RoundRobin" -> "round_robin"
    [] algo = "MLFQ" -> "mlfq"

(* The request the engine is called with: the arguments the handler passes, *)
(* the rest by default.                                                     *)
EngineRequest(request) ==
  SchedulingRequest(MethodOf(request.algo), request.processes,
                    IF request.algo = "RoundRobin" THEN request.config.time_quantum
                    ELSE None,
                    request.config.context_switch_cost,
                    IF request.algo \in {"SJF", "Priority"}
                    THEN request.config.preemptive ELSE FALSE,
                    "standard", NoWeights, "fixed",
                    IF request.algo = "MLFQ" THEN request.config.mlfq_config ELSE <<>>)

(* The exception that the try body raises by itself, before any call of     *)
(* the engine: <<>> when it raises none.                                    *)
RaisedByBody(request) ==
  IF request.algo = "RoundRobin"
  THEN IF QuantumMissing(request)
       THEN <<HTTPException(400, "Time quantum must be specified and greater than 0",
                            NoCause)>>
       ELSE <<>>
  ELSE IF request.algo \in {"FCFS", "SJF", "Priority", "MLFQ"} THEN <<>>
  ELSE <<HTTPException(400, "Algorithm not implemented yet", NoCause)>>

(* The two except clauses of the try statement, for the exception e that    *)
(* left its body.  An HTTPException is an Exception and no ValueError.      *)
Except(e) ==
  IF e.type = "ValueError"
  THEN HTTPException(400, "", Exception(e.type, e.text))
  ELSE HTTPException(500, "Internal server error: ", Exception(e.type, e.text))

(* A configuration with no queue.                                           *)
NoQueues == MLFQConfig(0, <<1>>, 0, 0, FALSE)

(* HTTP requests of the five algorithms and of one that is not supported.   *)
HttpRequests ==
  {CPUScheduleRequest(algo, w, tq, c, pre, cfg) :
     algo \in {"FCFS", "SJF", "Priority", "RoundRobin", "MLFQ", "CFS"},
     w \in {<<>>, SingleProcess,
            <<Process(1, 0, 2, 1), Process(2, 1, 2, 0), Process(3, 2, 2, 1)>>},
     tq \in {None, 0 - 1, 0, 1, 2}, c \in Costs, pre \in BOOLEAN,
     cfg \in {<<>>, <<SmallMlfq>>, <<NoQueues>>}}

(* schedule_processes up to its call of the engine: the body raises, and    *)
(* an except clause answers, or the engine is called (the call is run 1).   *)
Dispatch ==
  /\ http.pc = "received"
  /\ IF RaisedByBody(http.request) # <<>>
     THEN /\ http' = [http EXCEPT !.pc = "responded",
                                  !.response = Except(RaisedByBody(http.request)[1])]
          /\ UNCHANGED runs
     ELSE /\ http' = [http EXCEPT !.pc = "called"]
          /\ runs' = [r \in {1} |-> NewFrame(EngineRequest(http.request))]
  /\ UNCHANGED <<svc, hist, manager>>

(* schedule_processes from the end of the call of the engine: the result    *)
(* is returned, or an except clause answers the exception of the engine.    *)
Respond ==
  /\ http.pc = "called"
  /\ Ended(runs[1])
  /\ http' = [http EXCEPT
                !.pc = "responded",
                !.response = IF Returned(runs[1])
                             THEN APIResponse(<<Outcome(runs[1])>>)
                             ELSE Except(Exception(runs[1].error,
                                                   runs[1].error))]
  /\ UNCHANGED <<svc, runs, hist, manager>>

NextEndpoint == Next \/ Dispatch \/ Respond

InitEndpoint ==
  \/ /\ svc = ServiceInit
     /\ runs = <<>>
     /\ hist = NoHistory
     /\ manager = NewProcessManager
     /\ \E request \in HttpRequests :
          http = [pc |-> "received", request |-> request, response |-> NoCause]
  \/ \E req \in MixedRequests : Submitted(req)

SpecEndpoint == InitEndpoint /\ [][NextEndpoint]_vars

-----------------------------------------------------------------------------
(* Vocabulary of the properties.                                            *)

(* Unique ids, positive bursts, arrivals from 0 on, at least one process.   *)
ValidWorkload(req) ==
  /\ req.processes # <<>>
  /\ \A i, j \in 1..Len(req.processes) :
       req.processes[i].id = req.processes[j].id => i = j
  /\ \A i \in 1..Len(req.processes) :
       req.processes[i].burst_time > 0 /\ req.processes[i].arrival_time >= 0

(* Positive quanta where a quantum is read, at least one queue, a cost      *)
(* from 0 on.                                                               *)
ValidConfig(req) ==
  /\ req.context_switch_cost >= 0
  /\ req.method = "round_robin" => req.time_quantum # None /\ req.time_quantum > 0
  /\ req.method = "mlfq" =>
       /\ ConfigOf(req).num_queues >= 1
       /\ ConfigOf(req).time_quantums # <<>>
       /\ \A l \in 1..Len(ConfigOf(req).time_quantums) : ConfigOf(req).time_quantums[l] > 0

ValidRequest(req) == ValidWorkload(req) /\ ValidConfig(req)

(* The positions of the execution entries of a schedule, and of one id.     *)
Executions(schedule) == {i \in 1..Len(schedule) : schedule[i].type = "execution"}

ExecutionsOf(schedule, pid) == {i \in Executions(schedule) : schedule[i].process_id = pid}

Switches(schedule) == {i \in 1..Len(schedule) : schedule[i].type = "context_switch"}

Length(entry) == entry.end_time - entry.start_time

(* The time a schedule gives to one id, and to all.                         *)
ExecutedTime(schedule, pid) ==
  SumSeq([i \in 1..Len(schedule) |->
            IF i \in ExecutionsOf(schedule, pid) THEN Length(schedule[i]) ELSE 0])

TotalExecutedTime(schedule) ==
  SumSeq([i \in 1..Len(schedule) |->
            IF i \in Executions(schedule) THEN Length(schedule[i]) ELSE 0])

TotalBurst(req) == SumSeq([i \in 1..Len(req.processes) |-> req.processes[i].burst_time])

-----------------------------------------------------------------------------
(* C1: in the schedule a valid request gets back, the execution entries of  *)
(* each process add up to its burst_time, and all of them to the sum of the *)
(* burst times.                                                             *)
ExecutionAddsUpToBurst ==
  \A r \in DOMAIN runs :
    LET f == runs[r] IN
    (Returned(f) /\ ValidRequest(f.req)) =>
      /\ \A pid \in IdsOf(f.req) :
           ExecutedTime(f.schedule, pid) = ProcessOf(f.req, pid).burst_time
      /\ TotalExecutedTime(f.schedule) = TotalBurst(f.req)

(* A returned schedule in which a process ran in several slices with        *)
(* context switches in between.                                             *)
SlicedScheduleReturned ==
  \E r \in DOMAIN runs :
    LET f == runs[r] IN
    /\ Returned(f) /\ ValidRequest(f.req)
    /\ \E pid \in IdsOf(f.req) : Cardinality(ExecutionsOf(f.schedule, pid)) >= 2
    /\ Switches(f.schedule) # {}

(* C2: the entries of a schedule are in start_time order and each ends      *)
(* where the next one starts, also when the CPU had nothing to run for a    *)
(* while.                                                                   *)
ScheduleContiguous ==
  \A r \in DOMAIN runs :
    LET sch == runs[r].schedule IN
    \A i \in 1..(Len(sch) - 1) :
      /\ sch[i].start_time <= sch[i + 1].start_time
      /\ sch[i].end_time = sch[i + 1].start_time

(* C3: a call with a valid request ends by returning one ProcessResult per  *)
(* process, with no work left.                                              *)
EveryProcessCompleted ==
  \A r \in DOMAIN runs :
    LET f == runs[r] IN
    (Ended(f) /\ ValidRequest(f.req)) =>
      /\ Returned(f)
      /\ Len(f.results) = Len(f.req.processes)
      /\ \A pid \in IdsOf(f.req) :
           Cardinality({k \in 1..Len(f.results) : f.results[k].pid = pid}) = 1
      /\ LoopOf(f.req) \notin {"fcfs", "sjf_non_preemptive", "priority_non_preemptive"} =>
           \A pid \in IdsOf(f.req) : f.remaining[pid] = 0

(* C4: every ProcessResult has waiting_time >= 0, turnaround_time =         *)
(* completion_time - arrival_time = waiting_time + burst_time, and          *)
(* response_time <= waiting_time.                                           *)
ResultTimesConsistent ==
  \A r \in DOMAIN runs :
    LET f == runs[r] IN
    \A k \in 1..Len(f.results) :
      LET res == f.results[k] IN
      /\ res.waiting_time >= 0
      /\ res.turnaround_time = res.completion_time - res.arrival_time
      /\ res.turnaround_time = res.waiting_time + res.burst_time
      /\ res.response_time # None
      /\ res.response_time <= res.waiting_time

(* A run with a positive switch cost returned a process that waited again   *)
(* after its first dispatch, one that arrived after time 0 among them.      *)
PreemptedResultReturned ==
  \E r \in DOMAIN runs :
    LET f == runs[r] IN
    /\ Returned(f) /\ f.req.context_switch_cost > 0
    /\ \E k \in 1..Len(f.results) :
         /\ f.results[k].response_time < f.results[k].waiting_time
         /\ f.results[k].arrival_time > 0

(* C5: with a positive context_switch_cost, two execution entries of        *)
(* different processes that follow each other have a context_switch entry   *)
(* of that length between them, also when the first of the two processes    *)
(* completed.                                                               *)
SwitchBetweenDifferentProcesses ==
  \A r \in DOMAIN runs :
    LET f == runs[r]
        sch == f.schedule
    IN f.req.context_switch_cost > 0 =>
         \A i, j \in Executions(sch) :
           (/\ i < j
            /\ \A k \in (i + 1)..(j - 1) : k \notin Executions(sch)
            /\ sch[i].process_id # sch[j].process_id)
           => \E k \in (i + 1)..(j - 1) :
                /\ sch[k].type = "context_switch"
                /\ Length(sch[k]) = f.req.context_switch_cost

(* C6: every jump of the clock over an interval with no ready process left  *)
(* an idle entry covering that interval in the schedule (none for an empty  *)
(* interval).                                                               *)
IdleEntryForEveryJump ==
  \A r \in DOMAIN runs :
    LET f == runs[r] IN
    \A n \in 1..Len(f.jumps) :
      LET from == f.jumps[n][1]
          to == f.jumps[n][2]
      IN IF to > from
         THEN \E i \in 1..Len(f.schedule) :
                /\ f.schedule[i].type = "idle"
                /\ f.schedule[i].start_time = from
                /\ f.schedule[i].end_time = to
         ELSE \A i \in 1..Len(f.schedule) :
                f.schedule[i].type = "idle" => f.schedule[i].start_time # from


(* C7: a call that ran while another call of the service was in progress    *)
(* ends as the same request ends when it runs alone: same processes,        *)
(* schedule and metrics (context_switches, cpu_utilization, the length of   *)
(* the context switch entries).                                             *)
ConcurrentRunAsAlone ==
  \A r \in DOMAIN runs :
    Ended(runs[r]) => Outcome(runs[r]) = Outcome(Alone(runs[r].req))

(* C8: a request that is run again on the same service, after any other     *)
(* calls, ends as it ended the first time: same processes, schedule and     *)
(* metrics, or the same exception.                                          *)
RepeatedRunIdentical ==
  \A r \in DOMAIN runs :
    (/\ Ended(runs[r])
     /\ hist.first # <<>>
     /\ runs[r].req = hist.first[1].req)
    => Outcome(runs[r]) = hist.first[1].outcome

(* The first request returned a second time, with context switches, from a  *)
(* service on which the call before it had counted another number of        *)
(* context switches.                                                        *)
RepeatedAfterOtherRun ==
  \E r \in DOMAIN runs :
    LET f == runs[r] IN
    /\ Returned(f)
    /\ hist.served >= 2
    /\ hist.first # <<>>
    /\ f.req = hist.first[1].req
    /\ hist.entered.context_switches > 0
    /\ f.metrics.context_switches > 0
    /\ hist.entered.context_switches # f.metrics.context_switches

(* C9: a round-robin request without a time_quantum, or with one that is    *)
(* not positive, gets no schedule entry and no ProcessResult, returns       *)
(* nothing, and the exception it ends with is InvalidConfig.                *)
BadQuantumRejected ==
  \A r \in DOMAIN runs :
    LET f == runs[r] IN
    (/\ f.req.method = "round_robin"
     /\ (f.req.time_quantum = None \/ f.req.time_quantum <= 0))
    => /\ f.schedule = <<>>
       /\ f.results = <<>>
       /\ ~Returned(f)
       /\ f.pc = "raised" => f.error = "InvalidConfig"

(* C10: a request with a process whose burst_time is not positive or whose  *)
(* arrival_time is negative gets no schedule entry and no ProcessResult,    *)
(* returns nothing, and the exception it ends with is InvalidProcess.       *)
InvalidProcessRejected ==
  \A r \in DOMAIN runs :
    LET f == runs[r] IN
    (\E i \in 1..Len(f.req.processes) :
       f.req.processes[i].burst_time <= 0 \/ f.req.processes[i].arrival_time < 0)
    => /\ f.schedule = <<>>
       /\ f.results = <<>>
       /\ ~Returned(f)
       /\ f.pc = "raised" => f.error = "InvalidProcess"


(* C11: a call with an empty process list ends with the EmptyWorkload       *)
(* error and returns no result, whatever the method; no call with a         *)
(* process ends with that error.                                            *)
EmptyWorkloadFails ==
  \A r \in DOMAIN runs :
    LET f == runs[r] IN
    /\ (Ended(f) /\ f.req.processes = <<>>) =>
         f.pc = "raised" /\ f.error = "EmptyWorkload"
    /\ (Ended(f) /\ f.req.processes # <<>>) => f.error # "EmptyWorkload"


(* The completion_time of the result of process pid; None when it has none. *)
CompletionOf(f, pid) ==
  LET ks == {k \in 1..Len(f.results) : f.results[k].pid = pid}
  IN IF ks = {} THEN None ELSE f.results[CHOOSE k \in ks : TRUE].completion_time

(* C12: fcfs with context_switch_cost 1 on the four-process scenario        *)
(* completes P1..P4 at 8, 13, 23, 29, and its schedule alternates           *)
(* execution entries with single context_switch entries.                    *)
FcfsScenarioCompletions ==
  \A r \in DOMAIN runs :
    LET f == runs[r] IN
    (/\ Returned(f)
     /\ f.req.method = "fcfs"
     /\ f.req.processes = FcfsScenario
     /\ f.req.context_switch_cost = 1)
    => /\ CompletionOf(f, 1) = 8
       /\ CompletionOf(f, 2) = 13
       /\ CompletionOf(f, 3) = 23
       /\ CompletionOf(f, 4) = 29
       /\ Len(f.schedule) = 7
       /\ \A i \in 1..7 :
            f.schedule[i].type = IF i % 2 = 1 THEN "execution" ELSE "context_switch"

(* The fcfs scenario returned, with its three context switches counted.     *)
FcfsScenarioReturned ==
  \E r \in DOMAIN runs :
    LET f == runs[r] IN
    /\ Returned(f)
    /\ f.req.method = "fcfs"
    /\ f.req.processes = FcfsScenario
    /\ f.req.context_switch_cost = 1
    /\ f.metrics.context_switches = 3

(* C13: standard round robin with quantum 2 and no switch cost on the       *)
(* four-process scenario completes P4 before P1 and before P3.              *)
RoundRobinScenarioOrder ==
  \A r \in DOMAIN runs :
    LET f == runs[r] IN
    (/\ Returned(f)
     /\ f.req.method = "round_robin"
     /\ f.req.rr_variation = "standard"
     /\ f.req.time_quantum = 2
     /\ f.req.processes = RoundRobinScenario
     /\ f.req.context_switch_cost = 0)
    => /\ CompletionOf(f, 4) # None
       /\ CompletionOf(f, 4) < CompletionOf(f, 1)
       /\ CompletionOf(f, 4) < CompletionOf(f, 3)

(* The round-robin scenario returned with all four results, P4 having run   *)
(* in two slices.                                                           *)
RoundRobinScenarioReturned ==
  \E r \in DOMAIN runs :
    LET f == runs[r] IN
    /\ Returned(f)
    /\ f.req.method = "round_robin"
    /\ f.req.rr_variation = "standard"
    /\ f.req.time_quantum = 2
    /\ f.req.processes = RoundRobinScenario
    /\ f.req.context_switch_cost = 0
    /\ Len(f.results) = 4
    /\ Cardinality(ExecutionsOf(f.schedule, 4)) = 2

(* C14: a single process with arrival_time 0 and burst_time 5 gets, from    *)
(* every method and variant, waiting_time 0, response_time 0,               *)
(* turnaround_time 5, cpu_utilization 100 and no context switch.            *)
SingleProcessDegenerate ==
  \A r \in DOMAIN runs :
    LET f == runs[r] IN
    (Ended(f) /\ f.req.processes = SingleProcess)
    => /\ Returned(f)
       /\ Len(f.results) = 1
       /\ f.results[1].waiting_time = 0
       /\ f.results[1].response_time = 0
       /\ f.results[1].turnaround_time = 5
       /\ f.metrics.cpu_utilization.num = 100 * f.metrics.cpu_utilization.den
       /\ f.metrics.context_switches = 0


(* C15: fcfs runs the processes in arrival order: of two processes the one  *)
(* that arrived earlier has its execution entry end no later than the       *)
(* other's starts, and completes no later, whatever the burst times and     *)
(* the order of the list.                                                   *)
FcfsKeepsArrivalOrder ==
  \A r \in DOMAIN runs :
    LET f == runs[r]
        sch == f.schedule
    IN f.req.method = "fcfs" =>
         \A a, b \in IdsOf(f.req) :
           ProcessOf(f.req, a).arrival_time < ProcessOf(f.req, b).arrival_time =>
             /\ \A i \in ExecutionsOf(sch, a), j \in ExecutionsOf(sch, b) :
                  sch[i].end_time <= sch[j].start_time
             /\ ExecutionsOf(sch, b) # {} => ExecutionsOf(sch, a) # {}
             /\ Returned(f) => CompletionOf(f, a) <= CompletionOf(f, b)

(* fcfs returned for a list that names a later and shorter process before   *)
(* an earlier and longer one.                                               *)
FcfsReorderedListReturned ==
  \E r \in DOMAIN runs :
    LET f == runs[r]
        ps == f.req.processes
    IN /\ Returned(f)
       /\ f.req.method = "fcfs"
       /\ \E i, j \in 1..Len(ps) :
            /\ i < j
            /\ ps[j].arrival_time < ps[i].arrival_time
            /\ ps[j].burst_time > ps[i].burst_time
            /\ CompletionOf(f, ps[j].id) < CompletionOf(f, ps[i].id)


(* The time the schedule gave process pid before time t.                    *)
ExecutedBefore(schedule, pid, t) ==
  SumSeq([i \in 1..Len(schedule) |->
            IF i \in ExecutionsOf(schedule, pid) /\ schedule[i].start_time < t
            THEN MinOf(schedule[i].end_time, t) - schedule[i].start_time
            ELSE 0])

(* Some process arrived while another was running, with a burst_time        *)
(* smaller than what the running one had left at that time.                 *)
ShorterMidRunArrival(f) ==
  \E p, q \in IdsOf(f.req) :
    /\ p # q
    /\ \E i \in ExecutionsOf(f.schedule, p) :
         LET t == ProcessOf(f.req, q).arrival_time IN
         /\ f.schedule[i].start_time < t
         /\ t <= f.schedule[i].end_time
         /\ ProcessOf(f.req, q).burst_time
              < ProcessOf(f.req, p).burst_time - ExecutedBefore(f.schedule, p, t)

(* The same request with preemptive = false.                                *)
NonPreemptive(req) == [req EXCEPT !.preemptive = FALSE]

(* a <= b for two quotients with positive denominators.                     *)
FracLeq(a, b) == a.num * b.den <= b.num * a.den

(* C16: when under preemptive sjf a process arrived mid-run with less work  *)
(* than the running one had left, the average waiting time of preemptive    *)
(* sjf is at most that of non-preemptive sjf on the same request.           *)
SrtfWaitsNoLongerThanSjf ==
  \A r \in DOMAIN runs :
    LET f == runs[r] IN
    (/\ Returned(f)
     /\ LoopOf(f.req) = "srtf"
     /\ ValidRequest(f.req)
     /\ ShorterMidRunArrival(f))
    => FracLeq(f.metrics.average_waiting_time,
               Alone(NonPreemptive(f.req)).metrics.average_waiting_time)


(* C16, for requests without a context switch cost: when a process arrived  *)
(* mid-run with less work than the running one had left, the average        *)
(* waiting time of preemptive sjf is at most that of non-preemptive sjf.    *)
SrtfWaitsNoLongerWithoutCost ==
  \A r \in DOMAIN runs :
    LET f == runs[r] IN
    (/\ Returned(f)
     /\ LoopOf(f.req) = "srtf"
     /\ ValidRequest(f.req)
     /\ f.req.context_switch_cost = 0
     /\ ShorterMidRunArrival(f))
    => FracLeq(f.metrics.average_waiting_time,
               Alone(NonPreemptive(f.req)).metrics.average_waiting_time)

(* Preemptive sjf returned, without a switch cost, after a shorter process  *)
(* arrived mid-run, with an average waiting time below that of              *)
(* non-preemptive sjf.                                                      *)
SrtfBeatsSjfReturned ==
  \E r \in DOMAIN runs :
    LET f == runs[r] IN
    /\ Returned(f)
    /\ LoopOf(f.req) = "srtf"
    /\ f.req.context_switch_cost = 0
    /\ ShorterMidRunArrival(f)
    /\ ~FracLeq(Alone(NonPreemptive(f.req)).metrics.average_waiting_time,
                f.metrics.average_waiting_time)


(* The pass of mlfq from frame f to frame g dispatched a process.           *)
Dispatched(f, g) ==
  /\ f.pc = "loop"
  /\ g.pc = "loop"
  /\ g.req = f.req
  /\ LoopOf(f.req) = "mlfq"
  /\ Len(g.schedule) > Len(f.schedule)

(* The execution entry of the pass that led to frame g.                     *)
LastEntry(g) == g.schedule[Len(g.schedule)]

(* The process that the pass to frame g dispatched used the quantum of its  *)
(* queue up and has work left.                                              *)
UsedQuantumUp(g) ==
  /\ Length(LastEntry(g)) = QuantumOfLevel(ConfigOf(g.req), LastEntry(g).queue_level)
  /\ g.remaining[LastEntry(g).process_id] > 0

(* C17: in mlfq with N queues, the process dispatched from queue i is back  *)
(* in queue min(i + 1, N - 1) after the pass if and only if it ran for the  *)
(* whole quantum of queue i and has work left; and no pass takes a process  *)
(* to a queue below the one it was in, or a new process below queue 0,      *)
(* unless it dispatched that process for a whole quantum with work left.    *)
DemotedOnlyAfterFullQuantum ==
  [][\A r \in DOMAIN runs \cap DOMAIN runs' :
       LET f == runs[r]
           g == runs'[r]
       IN (ValidRequest(f.req) /\ f.pc = "loop" /\ g.pc = "loop" /\ g.req = f.req
           /\ LoopOf(f.req) = "mlfq")
          => /\ Dispatched(f, g) =>
                  (LevelIn(g.queues, LastEntry(g).process_id)
                     = MinOf(LastEntry(g).queue_level + 1, ConfigOf(f.req).num_queues - 1)
                   <=> UsedQuantumUp(g))
             /\ \A pid \in IdsOf(f.req) :
                  (/\ LevelIn(g.queues, pid) # None
                   /\ LevelIn(g.queues, pid) >
                        (IF LevelIn(f.queues, pid) = None THEN 0
                         ELSE LevelIn(f.queues, pid)))
                  => /\ Dispatched(f, g)
                     /\ LastEntry(g).process_id = pid
                     /\ UsedQuantumUp(g)]_vars

(* mlfq returned after a process went one queue down at the end of a whole  *)
(* quantum, a process of the last queue went back to it, and a process      *)
(* finished in less than the quantum of its queue.                          *)
DemotedAndKeptReturned ==
  \E r \in DOMAIN runs :
    LET f == runs[r]
        config == ConfigOf(f.req)
        last == config.num_queues - 1
    IN /\ Returned(f)
       /\ LoopOf(f.req) = "mlfq"
       /\ ValidRequest(f.req)
       /\ \E pid \in IdsOf(f.req) :
            \E j, k \in ExecutionsOf(f.schedule, pid) :
              /\ j < k
              /\ ExecutionsOf(f.schedule, pid) \cap (j + 1)..(k - 1) = {}
              /\ f.schedule[k].queue_level = f.schedule[j].queue_level + 1
              /\ Length(f.schedule[j]) = QuantumOfLevel(config, f.schedule[j].queue_level)
       /\ \E pid \in IdsOf(f.req) :
            \E j, k \in ExecutionsOf(f.schedule, pid) :
              /\ j < k
              /\ f.schedule[j].queue_level = last
              /\ f.schedule[k].queue_level = last
       /\ \E pid \in IdsOf(f.req) :
            \E j \in ExecutionsOf(f.schedule, pid) :
              Length(f.schedule[j]) < QuantumOfLevel(config, f.schedule[j].queue_level)


(* The frame is at the top of a pass of mlfq with aging.                    *)
AtAgingPass(f) ==
  /\ f.pc = "loop"
  /\ LoopOf(f.req) = "mlfq"
  /\ ValidRequest(f.req)
  /\ MlfqCondition(f)
  /\ ConfigOf(f.req).aging_threshold > 0

(* The process has waited for the aging threshold in a queue below queue 0  *)
(* when the aging pass of the frame begins.                                 *)
WaitedForThreshold(f, pid) ==
  /\ LevelIn(BeforeAging(f).queues, pid) # None
  /\ LevelIn(BeforeAging(f).queues, pid) > 0
  /\ f.current_time - BeforeAging(f).wait_start_time[pid]
       >= ConfigOf(f.req).aging_threshold

(* C18: in mlfq with an aging threshold T > 0, the aging pass of every      *)
(* dispatch decision moves each process that has waited for T or more in a  *)
(* queue i > 0 to queue i - 1 and sets its wait_start_time to the current   *)
(* time; no process goes up by more than one queue in one aging pass, and   *)
(* two successive promotions of a process are T or more apart.              *)
AgingPromotesOneLevel ==
  \A r \in DOMAIN runs :
    LET f == runs[r]
        T == ConfigOf(f.req).aging_threshold
        before == BeforeAging(f)
        after == AtDecision(f)
    IN /\ AtAgingPass(f) =>
            \A pid \in IdsOf(f.req) :
              /\ WaitedForThreshold(f, pid) =>
                   /\ LevelIn(after.queues, pid) = LevelIn(before.queues, pid) - 1
                   /\ after.wait_start_time[pid] = f.current_time
              /\ LevelIn(before.queues, pid) # None =>
                   /\ LevelIn(after.queues, pid) # None
                   /\ LevelIn(after.queues, pid) >= LevelIn(before.queues, pid) - 1
       /\ (LoopOf(f.req) = "mlfq" /\ ValidRequest(f.req) /\ T > 0) =>
            \A pid \in IdsOf(f.req) :
              \A k \in 1..Len(f.promotions[pid]) :
                /\ f.promotions[pid][k].to = f.promotions[pid][k].from - 1
                /\ k > 1 => f.promotions[pid][k].time - f.promotions[pid][k - 1].time >= T

(* mlfq returned after the aging passes promoted one process twice and      *)
(* took a process from queue 2 to queue 1.                                  *)
PromotedTwiceReturned ==
  \E r \in DOMAIN runs :
    LET f == runs[r] IN
    /\ Returned(f)
    /\ LoopOf(f.req) = "mlfq"
    /\ ValidRequest(f.req)
    /\ ConfigOf(f.req).aging_threshold > 0
    /\ \E pid \in IdsOf(f.req) : Len(f.promotions[pid]) >= 2
    /\ \E pid \in IdsOf(f.req) :
         \E k \in 1..Len(f.promotions[pid]) : f.promotions[pid][k].from = 2


(* C19: in every returned result, total_time is the largest                 *)
(* completion_time of the ProcessResults, cpu_utilization is                *)
(* 100 * (sum of the burst times + context_switches * context_switch_cost)  *)
(* / total_time, and throughput is (number of processes) / total_time.      *)
MetricsFromResults ==
  \A r \in DOMAIN runs :
    LET f == runs[r]
        m == f.metrics
        n == Len(f.req.processes)
    IN (Returned(f) /\ ValidRequest(f.req)) =>
         /\ m.total_time = Max({f.results[k].completion_time : k \in 1..Len(f.results)})
         /\ m.cpu_utilization.num * m.total_time
              = 100 * (TotalBurst(f.req) + m.context_switches * f.req.context_switch_cost)
                * m.cpu_utilization.den
         /\ m.throughput.num * m.total_time = n * m.throughput.den

(* A result with context switches that took time and with a processor that  *)
(* was not busy all the time.                                               *)
MetricsWithSwitchesReturned ==
  \E r \in DOMAIN runs :
    LET f == runs[r] IN
    /\ Returned(f)
    /\ ValidRequest(f.req)
    /\ f.metrics.context_switches > 0
    /\ f.req.context_switch_cost > 0
    /\ f.jumps # <<>>
    /\ f.metrics.cpu_utilization.num < 100 * f.metrics.cpu_utilization.den


(* The handler itself found the configuration of the request wrong.         *)
ConfigErrorDetected(request) ==
  \/ request.algo = "RoundRobin" /\ QuantumMissing(request)
  \/ request.algo \notin {"FCFS", "SJF", "Priority", "RoundRobin", "MLFQ"}

(* C20: a configuration error that schedule_processes detects (RoundRobin   *)
(* with a missing or non-positive time_quantum, an unsupported algorithm    *)
(* name) is answered with status 400, never 500, and a response of status   *)
(* 500 carries no text of the exception that caused it.                     *)
ConfigErrorIsClientError ==
  http.pc = "responded" =>
    /\ ConfigErrorDetected(http.request) => http.response.status_code = 400
    /\ http.response.status_code = 500 => http.response.cause = NoCause


(* C21: no step of a call changes the Process objects of its request, in    *)
(* any method, priority scheduling with priority_type 'dynamic' included.   *)
ProcessesNeverMutated ==
  [][\A r \in DOMAIN runs \cap DOMAIN runs' :
       runs'[r].req.processes = runs[r].req.processes]_vars

(* A call of non-preemptive priority scheduling with priority_type         *)
(* 'dynamic' ended after its clock had moved.                               *)
DynamicPriorityEnded ==
  \E r \in DOMAIN runs :
    LET f == runs[r] IN
    /\ Ended(f)
    /\ f.req.method = "priority_scheduling"
    /\ f.req.priority_type = "dynamic"
    /\ ~f.req.preemptive
    /\ ValidRequest(f.req)
    /\ f.current_time > 0


(* The methods that run a process in slices.                                *)
Sliced(req) ==
  LoopOf(req) \in {"srtf", "priority_preemptive", "standard_round_robin",
                   "weighted_round_robin", "deficit_round_robin", "mlfq"}

(* C22: in the preemptive and the quantum-based methods the remaining time  *)
(* of every process is its burst_time when the loop begins, no pass         *)
(* increases it or takes it below 0, and no pass dispatches a process       *)
(* whose remaining time is 0.                                               *)
RemainingOnlyDecreases ==
  [][\A r \in DOMAIN runs \cap DOMAIN runs' :
       LET f == runs[r]
           g == runs'[r]
       IN (Sliced(f.req) /\ ValidRequest(f.req) /\ g.req = f.req) =>
            /\ (f.pc = "call" /\ g.pc = "loop") =>
                 \A pid \in IdsOf(f.req) :
                   g.remaining[pid] = ProcessOf(f.req, pid).burst_time
            /\ f.pc = "loop" =>
                 /\ \A pid \in IdsOf(f.req) :
                      g.remaining[pid] <= f.remaining[pid] /\ g.remaining[pid] >= 0
                 /\ \A i \in (Len(f.schedule) + 1)..Len(g.schedule) :
                      g.schedule[i].type = "execution" =>
                        f.remaining[g.schedule[i].process_id] > 0]_vars

(* A sliced loop in which one process has no remaining time, another has    *)
(* used a part of its burst_time and a third has used none.                 *)
RemainingPartlyUsed ==
  \E r \in DOMAIN runs :
    LET f == runs[r] IN
    /\ f.pc = "loop"
    /\ Sliced(f.req)
    /\ ValidRequest(f.req)
    /\ \E pid \in IdsOf(f.req) : f.remaining[pid] = 0
    /\ \E pid \in IdsOf(f.req) :
         f.remaining[pid] > 0 /\ f.remaining[pid] < ProcessOf(f.req, pid).burst_time
    /\ \E pid \in IdsOf(f.req) : f.remaining[pid] = ProcessOf(f.req, pid).burst_time


(* What process pid has left at time t, by the schedule.                    *)
RemainingAt(f, pid, t) ==
  ProcessOf(f.req, pid).burst_time - ExecutedBefore(f.schedule, pid, t)

(* The processes that have arrived by time t with work left.                *)
ReadyAt(f, t) ==
  {q \in IdsOf(f.req) : ProcessOf(f.req, q).arrival_time <= t /\ RemainingAt(f, q, t) > 0}

(* C23: under preemptive sjf, at the start s of every execution entry the   *)
(* process of the entry has the least (remaining time, arrival_time, id)    *)
(* of the processes that have arrived by s with work left, and the entry    *)
(* ends no later than the first arrival after s of a process with a         *)
(* burst_time smaller than what the running process has left then.          *)
SrtfRunsShortestRemaining ==
  \A r \in DOMAIN runs :
    LET f == runs[r] IN
    (LoopOf(f.req) = "srtf" /\ ValidRequest(f.req)) =>
      \A i \in Executions(f.schedule) :
        LET p == f.schedule[i].process_id
            s == f.schedule[i].start_time
        IN /\ \A q \in ReadyAt(f, s) \ {p} :
                TupleLess(<<RemainingAt(f, p, s), ProcessOf(f.req, p).arrival_time, p>>,
                          <<RemainingAt(f, q, s), ProcessOf(f.req, q).arrival_time, q>>)
           /\ \A q \in IdsOf(f.req) \ {p} :
                LET a == ProcessOf(f.req, q).arrival_time IN
                (a > s /\ ProcessOf(f.req, q).burst_time < RemainingAt(f, p, s) - (a - s))
                => f.schedule[i].end_time <= a




(* The processes of frame f that have arrived by its time and have not      *)
(* finished.                                                                *)
ReadyNow(f) ==
  {q \in IdsOf(f.req) :
     /\ ProcessOf(f.req, q).arrival_time <= f.current_time
     /\ IF f.req.preemptive THEN f.remaining[q] > 0 ELSE q \notin f.completed}

(* priority - floor((t - arrival_time) / 10), arrival_time, pid             *)
DynamicKey(f, q) ==
  <<ProcessOf(f.req, q).priority
      - ((f.current_time - ProcessOf(f.req, q).arrival_time) \div 10),
    ProcessOf(f.req, q).arrival_time, q>>

(* C24: with priority_type 'dynamic', preemptive or not, a pass that finds  *)
(* ready processes at time t runs the one with the least                    *)
(* (priority - floor((t - arrival_time) / 10), arrival_time, pid).          *)
DynamicPicksLeastEffectivePriority ==
  [][\A r \in DOMAIN runs \cap DOMAIN runs' :
       LET f == runs[r]
           g == runs'[r]
       IN (/\ f.req.method = "priority_scheduling"
           /\ f.req.priority_type = "dynamic"
           /\ ValidRequest(f.req)
           /\ g.req = f.req
           /\ f.pc = "loop"
           /\ ReadyNow(f) # {})
          => /\ Len(g.schedule) > Len(f.schedule)
             /\ \A q \in ReadyNow(f) \ {g.schedule[Len(g.schedule)].process_id} :
                  TupleLess(DynamicKey(f, g.schedule[Len(g.schedule)].process_id),
                            DynamicKey(f, q))]_vars


(* The arrival times after s of the unfinished processes of f that are      *)
(* strictly more urgent than pid.                                           *)
UrgentArrivalsAfter(f, pid, s) ==
  {ProcessOf(f.req, q).arrival_time : q \in
     {q \in IdsOf(f.req) :
        /\ f.remaining[q] > 0
        /\ ProcessOf(f.req, q).arrival_time > s
        /\ ProcessOf(f.req, q).priority < ProcessOf(f.req, pid).priority}}

FixedPreemptive(req) ==
  /\ req.method = "priority_scheduling"
  /\ req.preemptive
  /\ req.priority_type = "fixed"
  /\ ValidRequest(req)

(* C25: under preemptive priority scheduling with priority_type 'fixed', a  *)
(* slice of P that starts at s ends at the least of s + remaining_time(P)   *)
(* and the arrival times after s of the unfinished processes with a         *)
(* strictly smaller priority value; no such arrival lies inside the slice,  *)
(* and a slice that ends before the completion ends at such an arrival.     *)
SliceEndsAtUrgentArrival ==
  [][\A r \in DOMAIN runs \cap DOMAIN runs' :
       LET f == runs[r]
           g == runs'[r]
           e == LastEntry(g)
           urgent == UrgentArrivalsAfter(f, e.process_id, e.start_time)
       IN (/\ FixedPreemptive(f.req)
           /\ g.req = f.req
           /\ Len(g.schedule) > Len(f.schedule))
          => /\ e.type = "execution"
             /\ e.end_time = Min({e.start_time + f.remaining[e.process_id]} \cup urgent)
             /\ \A a \in urgent : ~(a < e.end_time)
             /\ e.end_time < e.start_time + f.remaining[e.process_id]
                  => e.end_time \in urgent]_vars

(* A returned call in which one slice was ended by the arrival of a more    *)
(* urgent process and another ran past the arrival of a process of equal    *)
(* or lower urgency.                                                        *)
SliceCutAndSliceKeptReturned ==
  \E r \in DOMAIN runs :
    /\ Returned(runs[r])
    /\ FixedPreemptive(runs[r].req)
    /\ \E k \in 1..Len(runs[r].schedule) :
         LET e == runs[r].schedule[k] IN
         /\ e.type = "execution"
         /\ \E q \in IdsOf(runs[r].req) :
              /\ ProcessOf(runs[r].req, q).arrival_time = e.end_time
              /\ ProcessOf(runs[r].req, q).priority
                   < ProcessOf(runs[r].req, e.process_id).priority
              /\ CompletionOf(runs[r], e.process_id) > e.end_time
    /\ \E k \in 1..Len(runs[r].schedule) :
         LET e == runs[r].schedule[k] IN
         /\ e.type = "execution"
         /\ \E q \in IdsOf(runs[r].req) :
              /\ ProcessOf(runs[r].req, q).arrival_time > e.start_time
              /\ ProcessOf(runs[r].req, q).arrival_time < e.end_time
              /\ ProcessOf(runs[r].req, q).priority
                   >= ProcessOf(runs[r].req, e.process_id).priority


(* The non-preemptive schedulers that select by a fixed key.                *)
SelectsOnce(req) ==
  /\ ValidRequest(req)
  /\ ~req.preemptive
  /\ \/ req.method = "sjf"
     \/ req.method = "priority_scheduling" /\ req.priority_type = "fixed"

(* (burst_time, arrival_time, id) under sjf, (priority, arrival_time, id)   *)
(* under priority scheduling.                                               *)
OnceKey(req, q) ==
  <<IF req.method = "sjf" THEN ProcessOf(req, q).burst_time ELSE ProcessOf(req, q).priority,
    ProcessOf(req, q).arrival_time, q>>

(* C26: under non-preemptive sjf and non-preemptive fixed priority, a pass  *)
(* at time t that finds unfinished arrived processes runs the one with the  *)
(* least (burst_time, arrival_time, id), respectively (priority,            *)
(* arrival_time, id), to its completion in one execution entry of length    *)
(* burst_time, the only one the process ever has, and records a             *)
(* response_time equal to its waiting_time.                                 *)
SelectedOnceRunsWhole ==
  [][\A r \in DOMAIN runs \cap DOMAIN runs' :
       LET f == runs[r]
           g == runs'[r]
           e == LastEntry(g)
           res == g.results[Len(g.results)]
       IN (/\ SelectsOnce(f.req)
           /\ g.req = f.req
           /\ f.pc = "loop"
           /\ ReadyNow(f) # {})
          => /\ Len(g.schedule) > Len(f.schedule)
             /\ e.type = "execution"
             /\ e.process_id \in ReadyNow(f)
             /\ \A q \in ReadyNow(f) \ {e.process_id} :
                  TupleLess(OnceKey(f.req, e.process_id), OnceKey(f.req, q))
             /\ Length(e) = ProcessOf(f.req, e.process_id).burst_time
             /\ ExecutionsOf(f.schedule, e.process_id) = {}
             /\ Cardinality(ExecutionsOf(g.schedule, e.process_id)) = 1
             /\ Cardinality(Executions(g.schedule)) = Cardinality(Executions(f.schedule)) + 1
             /\ e.process_id \in g.completed
             /\ Len(g.results) = Len(f.results) + 1
             /\ res.pid = e.process_id
             /\ res.completion_time = e.end_time
             /\ res.response_time = res.waiting_time
             /\ res.waiting_time = e.start_time - ProcessOf(f.req, e.process_id).arrival_time]_vars

(* A returned non-preemptive call, of sjf or of fixed priority, in which    *)
(* the key chose against the arrival order: a later arrival ran before an   *)
(* earlier one that was waiting, after a context switch.                    *)
ChosenByKeyReturned ==
  \E r \in DOMAIN runs :
    /\ Returned(runs[r])
    /\ SelectsOnce(runs[r].req)
    /\ \E p, q \in IdsOf(runs[r].req) :
         /\ ProcessOf(runs[r].req, p).arrival_time < ProcessOf(runs[r].req, q).arrival_time
         /\ CompletionOf(runs[r], q) < CompletionOf(runs[r], p)
         /\ ProcessOf(runs[r].req, q).arrival_time
              <= CompletionOf(runs[r], q) - ProcessOf(runs[r].req, q).burst_time
                   - runs[r].req.context_switch_cost
         /\ \E k \in 1..Len(runs[r].results) :
              /\ runs[r].results[k].pid = q
              /\ runs[r].results[k].response_time > 0
              /\ runs[r].results[k].response_time = runs[r].results[k].waiting_time


(* C27: fcfs orders the processes by (arrival_time, id): of two processes   *)
(* with the same arrival_time the one with the smaller id runs first, in    *)
(* whatever order the request lists them.                                   *)
FcfsBreaksTiesById ==
  \A r \in DOMAIN runs :
    (/\ Returned(runs[r])
     /\ runs[r].req.method = "fcfs"
     /\ ValidRequest(runs[r].req))
    => \A p, q \in IdsOf(runs[r].req) :
         (/\ p < q
          /\ ProcessOf(runs[r].req, p).arrival_time = ProcessOf(runs[r].req, q).arrival_time)
         => CompletionOf(runs[r], p) < CompletionOf(runs[r], q)


(* The position in the schedule of the first execution entry of pid.        *)
FirstDispatch(schedule, pid) == Min(ExecutionsOf(schedule, pid))

(* C28: in the round-robin variants the processes enter the ready queue in  *)
(* the order (arrival_time, id): if A precedes B in that order, the first   *)
(* dispatch of A comes before the first dispatch of B, in whatever order    *)
(* the request lists them and also when both arrive during one slice.       *)
RoundRobinAdmitsInArrivalOrder ==
  \A r \in DOMAIN runs :
    (/\ Returned(runs[r])
     /\ runs[r].req.method = "round_robin"
     /\ ValidRequest(runs[r].req))
    => \A a, b \in IdsOf(runs[r].req) :
         TupleLess(<<ProcessOf(runs[r].req, a).arrival_time, a>>,
                   <<ProcessOf(runs[r].req, b).arrival_time, b>>)
         => FirstDispatch(runs[r].schedule, a) < FirstDispatch(runs[r].schedule, b)


IsStandardRoundRobin(req) ==
  /\ req.method = "round_robin"
  /\ req.rr_variation = "standard"
  /\ ValidRequest(req)

(* No id twice in the queue, and none without work left.                    *)
QueueOfUnfinished(f) ==
  /\ \A i, j \in 1..Len(f.ready_queue) : f.ready_queue[i] = f.ready_queue[j] => i = j
  /\ \A i \in 1..Len(f.ready_queue) : f.remaining[f.ready_queue[i]] > 0

(* C29: in standard round-robin with quantum Q > 0 a dispatch takes the     *)
(* head of the ready queue (of the arrived processes when the queue is      *)
(* empty) and adds one execution entry of length min(Q, remaining_time); a  *)
(* process with work left afterwards is at the tail of the queue, one       *)
(* without is not in it; the queue never holds an id twice nor a completed  *)
(* process.                                                                 *)
StandardDispatchesHead ==
  [][\A r \in DOMAIN runs \cap DOMAIN runs' :
       LET f == runs[r]
           g == runs'[r]
           e == LastEntry(g)
           pid == e.process_id
       IN (/\ IsStandardRoundRobin(f.req)
           /\ g.req = f.req
           /\ f.pc = "loop"
           /\ f.time_quantum > 0)
          => /\ QueueOfUnfinished(f)
             /\ QueueOfUnfinished(g)
             /\ Len(g.schedule) > Len(f.schedule)
                => /\ e.type = "execution"
                   /\ Cardinality(Executions(g.schedule))
                        = Cardinality(Executions(f.schedule)) + 1
                   /\ IF f.ready_queue # <<>> THEN pid = Head(f.ready_queue)
                      ELSE ProcessOf(f.req, pid).arrival_time <= f.current_time
                   /\ Length(e) = MinOf(f.time_quantum, f.remaining[pid])
                   /\ g.remaining[pid] = f.remaining[pid] - Length(e)
                   /\ IF g.remaining[pid] > 0
                      THEN g.ready_queue[Len(g.ready_queue)] = pid
                      ELSE ~InSeq(pid, g.ready_queue)
                   /\ \A k \in 2..Len(f.ready_queue) :
                        g.ready_queue[k - 1] = f.ready_queue[k]]_vars

(* A returned standard round-robin call in which a process was cut at the   *)
(* quantum with work left, another process ran from the head of the queue,  *)
(* and the first ran again from the tail.                                   *)
RequeuedBehindOtherReturned ==
  \E r \in DOMAIN runs :
    /\ Returned(runs[r])
    /\ IsStandardRoundRobin(runs[r].req)
    /\ \E i, j, k \in Executions(runs[r].schedule) :
         /\ i < j /\ j < k
         /\ runs[r].schedule[i].process_id = runs[r].schedule[k].process_id
         /\ runs[r].schedule[j].process_id # runs[r].schedule[i].process_id
         /\ Length(runs[r].schedule[i]) = runs[r].time_quantum
         /\ Length(runs[r].schedule[i])
              < ProcessOf(runs[r].req, runs[r].schedule[i].process_id).burst_time


IsDeficitRoundRobin(req) ==
  /\ req.method = "round_robin"
  /\ req.rr_variation = "deficit"
  /\ ValidRequest(req)

(* C30: in deficit round-robin with quantum Q the deficit_counter of a      *)
(* process is Q when it enters the ready queue, grows by Q at its dispatch, *)
(* the slice is min(deficit_counter, remaining_time), the counter falls by  *)
(* the length of the slice and is set to 0 at the completion; between its   *)
(* dispatches the counter of a queued process does not change.              *)
DeficitCounterRules ==
  [][\A r \in DOMAIN runs \cap DOMAIN runs' :
       LET f == runs[r]
           g == runs'[r]
           Q == g.time_quantum
           e == LastEntry(g)
           pid == e.process_id
           had == IF InSeq(pid, f.ready_queue) THEN f.deficit_counter[pid] ELSE Q
       IN (/\ IsDeficitRoundRobin(f.req)
           /\ g.req = f.req)
          => /\ (f.pc = "call" /\ g.pc = "loop")
                => \A q \in IdsOf(f.req) :
                     g.deficit_counter[q] = IF InSeq(q, g.ready_queue) THEN Q ELSE 0
             /\ (f.pc = "loop" /\ Len(g.schedule) = Len(f.schedule))
                => g.deficit_counter = f.deficit_counter
             /\ (f.pc = "loop" /\ Len(g.schedule) > Len(f.schedule))
                => /\ e.type = "execution"
                   /\ Length(e) = MinOf(had + Q, f.remaining[pid])
                   /\ g.remaining[pid] = f.remaining[pid] - Length(e)
                   /\ g.deficit_counter[pid]
                        = IF g.remaining[pid] > 0 THEN had + Q - Length(e) ELSE 0
                   /\ \A q \in IdsOf(f.req) \ {pid} :
                        g.deficit_counter[q]
                          = IF InSeq(q, g.ready_queue) /\ ~InSeq(q, f.ready_queue)
                            THEN Q ELSE f.deficit_counter[q]]_vars

(* A returned deficit round-robin call in which a process ran a first slice *)
(* of two quanta (the one it had when it became ready and the one of the    *)
(* dispatch), later a slice of one quantum, and another process completed   *)
(* in a slice shorter than its counter.                                     *)
DeficitSpentAndRefilledReturned ==
  \E r \in DOMAIN runs :
    /\ Returned(runs[r])
    /\ IsDeficitRoundRobin(runs[r].req)
    /\ \E i, k \in Executions(runs[r].schedule) :
         /\ i < k
         /\ runs[r].schedule[i].process_id = runs[r].schedule[k].process_id
         /\ i = FirstDispatch(runs[r].schedule, runs[r].schedule[i].process_id)
         /\ Length(runs[r].schedule[i]) = 2 * runs[r].time_quantum
         /\ Length(runs[r].schedule[k]) = runs[r].time_quantum
    /\ \E i \in Executions(runs[r].schedule) :
         /\ i = FirstDispatch(runs[r].schedule, runs[r].schedule[i].process_id)
         /\ Length(runs[r].schedule[i]) < 2 * runs[r].time_quantum
    /\ \A q \in IdsOf(runs[r].req) : runs[r].deficit_counter[q] = 0


IsMlfq(req) == req.method = "mlfq" /\ ValidRequest(req)

(* C31: every dispatch of mlfq takes the head of the lowest-indexed queue   *)
(* that is not empty after the admission, the boost and the aging pass at   *)
(* the current time; no queue of a lower index holds a process then.        *)
MlfqDispatchesLowestQueue ==
  [][\A r \in DOMAIN runs \cap DOMAIN runs' :
       LET f == runs[r]
           g == runs'[r]
           q == AtDecision(f)
           e == LastEntry(g)
       IN (/\ IsMlfq(f.req)
           /\ g.req = f.req
           /\ f.pc = "loop")
          => /\ (Len(g.schedule) > Len(f.schedule))
                => /\ e.type = "execution"
                   /\ e.queue_level \in 0..(Len(q.queues) - 1)
                   /\ q.queues[e.queue_level + 1] # <<>>
                   /\ e.process_id = Head(q.queues[e.queue_level + 1])
                   /\ \A i \in 0..(e.queue_level - 1) : q.queues[i + 1] = <<>>
             /\ (Len(g.schedule) = Len(f.schedule))
                => \A i \in 1..Len(q.queues) : q.queues[i] = <<>>]_vars

(* mlfq returned after a dispatch from a queue below the top while the top  *)
(* queue was empty, a later dispatch of another process from the top queue, *)
(* and the first process served again from a lower queue after it.          *)
LowerQueueServedThenTopReturned ==
  \E r \in DOMAIN runs :
    /\ Returned(runs[r])
    /\ IsMlfq(runs[r].req)
    /\ \E j, k \in Executions(runs[r].schedule) :
         /\ j < k
         /\ runs[r].schedule[j].queue_level > 0
         /\ runs[r].schedule[k].queue_level = 0
         /\ runs[r].schedule[k].process_id # runs[r].schedule[j].process_id
         /\ \E m \in Executions(runs[r].schedule) :
              /\ m > k
              /\ runs[r].schedule[m].queue_level > 0
              /\ runs[r].schedule[m].process_id = runs[r].schedule[j].process_id


(* The processes in the queues below the top.                               *)
BelowTop(queues) == {pid \in Range(ConcatFrom(queues, 2)) : TRUE}

(* C32: in mlfq with priority_boost and boost_interval B > 0, a pass at a   *)
(* time t with t >= B and t - (time of the previous boost, 0 at first) >= B *)
(* moves every process of the queues below the top to queue 0, with         *)
(* queue_level 0 and the wait timer at t, before it dispatches: the         *)
(* dispatch is from queue 0 and no process is left in a lower queue at it.  *)
BoostEmptiesLowerQueues ==
  [][\A r \in DOMAIN runs \cap DOMAIN runs' :
       LET f == runs[r]
           g == runs'[r]
           config == ConfigOf(f.req)
           t == f.current_time
           e == LastEntry(g)
       IN (/\ IsMlfq(f.req)
           /\ g.req = f.req
           /\ f.pc = "loop"
           /\ MlfqCondition(f)
           /\ config.priority_boost
           /\ config.boost_interval > 0
           /\ t >= config.boost_interval
           /\ t - f.last_boost_time >= config.boost_interval)
          => /\ g.last_boost_time = t
             /\ Len(g.schedule) > Len(f.schedule)
                => /\ e.queue_level = 0
                   /\ \A pid \in BelowTop(f.queues) \ {e.process_id} :
                        /\ LevelIn(g.queues, pid) = 0
                        /\ g.queue_level[pid] = 0
                        /\ g.wait_start_time[pid] = t
                   /\ BelowTop(g.queues) \subseteq {e.process_id}]_vars

(* mlfq without aging returned after a boost: a process that ran from a     *)
(* lower queue ran from queue 0 again, at or after the boost interval.      *)
BoostedProcessReturned ==
  \E r \in DOMAIN runs :
    /\ Returned(runs[r])
    /\ IsMlfq(runs[r].req)
    /\ ConfigOf(runs[r].req).priority_boost
    /\ ConfigOf(runs[r].req).aging_threshold = 0
    /\ runs[r].last_boost_time >= ConfigOf(runs[r].req).boost_interval
    /\ \E j, k \in Executions(runs[r].schedule) :
         /\ j < k
         /\ runs[r].schedule[j].process_id = runs[r].schedule[k].process_id
         /\ runs[r].schedule[j].queue_level > 0
         /\ runs[r].schedule[k].queue_level = 0
         /\ runs[r].schedule[k].start_time >= ConfigOf(runs[r].req).boost_interval


(* C33: under every algorithm the response time of a process is recorded    *)
(* at its first dispatch and not written again: a response time that is     *)
(* set stays as it is, and the response_time of every completed process is  *)
(* the start_time of its earliest execution entry less its arrival_time.    *)
ResponseRecordedOnce ==
  [][\A r \in DOMAIN runs \cap DOMAIN runs' :
       LET f == runs[r]
           g == runs'[r]
       IN (ValidRequest(f.req) /\ g.req = f.req)
          => /\ \A pid \in IdsOf(f.req) :
                  (f.pc = "loop" /\ f.response_time[pid] # None)
                  => g.response_time[pid] = f.response_time[pid]
             /\ \A k \in 1..Len(g.results) :
                  /\ ExecutionsOf(g.schedule, g.results[k].pid) # {}
                  /\ g.results[k].response_time
                       = g.schedule[FirstDispatch(g.schedule, g.results[k].pid)].start_time
                         - g.results[k].arrival_time]_vars

(* A returned call in which a process that waited for its first dispatch    *)
(* ran in two slices with another process between them.                     *)
RespondedThenResumedReturned ==
  \E r \in DOMAIN runs :
    /\ Returned(runs[r])
    /\ ValidRequest(runs[r].req)
    /\ \E i, j, k \in Executions(runs[r].schedule) :
         /\ i < j /\ j < k
         /\ runs[r].schedule[i].process_id = runs[r].schedule[k].process_id
         /\ runs[r].schedule[j].process_id # runs[r].schedule[i].process_id
         /\ i = FirstDispatch(runs[r].schedule, runs[r].schedule[i].process_id)
         /\ \E n \in 1..Len(runs[r].results) :
              /\ runs[r].results[n].pid = runs[r].schedule[i].process_id
              /\ runs[r].results[n].response_time > 0
              /\ runs[r].results[n].response_time + runs[r].results[n].arrival_time
                   = runs[r].schedule[i].start_time


(* The places <<level, position>> of pid in the queues.                     *)
PlacesOf(queues, pid) ==
  UNION {{<<l, i>> : i \in {k \in 1..Len(queues[l + 1]) : queues[l + 1][k] = pid}} :
           l \in 0..(Len(queues) - 1)}

(* C34: at every dispatch decision of mlfq, every process that has arrived  *)
(* with work left is in the queues once, in the queue of its queue_level    *)
(* field; a process that is completed or has not arrived is in none.        *)
MlfqQueuesHoldTheReady ==
  \A r \in DOMAIN runs :
    LET f == runs[r]
        q == AtDecision(f)
    IN (/\ IsMlfq(f.req)
        /\ f.pc = "loop"
        /\ MlfqCondition(f))
       => \A pid \in IdsOf(f.req) :
          IF ProcessOf(f.req, pid).arrival_time <= f.current_time
             /\ f.remaining[pid] > 0
          THEN /\ Cardinality(PlacesOf(q.queues, pid)) = 1
               /\ \A pl \in PlacesOf(q.queues, pid) : pl[1] = q.queue_level[pid]
          ELSE PlacesOf(q.queues, pid) = {}

(* A dispatch decision of mlfq at which one process is in queue 0, one in   *)
(* a lower queue, and one is completed or has not arrived.                  *)
ReadyInTwoQueuesAtDecision ==
  \E r \in DOMAIN runs :
    LET f == runs[r]
        q == AtDecision(f)
    IN /\ IsMlfq(f.req)
       /\ f.pc = "loop"
       /\ MlfqCondition(f)
       /\ q.queues[1] # <<>>
       /\ BelowTop(q.queues) # {}
       /\ \E pid \in IdsOf(f.req) : PlacesOf(q.queues, pid) = {}
       /\ f.schedule # <<>>


(* C35: in the result of every call of a service that serves one call at a  *)
(* time, metrics.context_switches is the number of context_switch entries   *)
(* of the schedule, each of them as long as the context_switch_cost of the  *)
(* request, none of them the first entry; with context_switch_cost 0 there  *)
(* is no such entry and the count is 0.                                     *)
SwitchesCountedAndTimed ==
  \A r \in DOMAIN runs :
    Returned(runs[r])
    => /\ runs[r].metrics.context_switches = Cardinality(Switches(runs[r].schedule))
       /\ \A i \in Switches(runs[r].schedule) :
            /\ Length(runs[r].schedule[i]) = runs[r].req.context_switch_cost
            /\ i > 1
       /\ runs[r].req.context_switch_cost = 0
          => /\ Switches(runs[r].schedule) = {}
             /\ runs[r].metrics.context_switches = 0

(* A call that returned with context switches from a service that had      *)
(* counted another number of them in the call before.                       *)
SwitchesCountedAfresh ==
  \E r \in DOMAIN runs :
    /\ Returned(runs[r])
    /\ hist.served > 0
    /\ hist.entered.context_switches > 0
    /\ Switches(runs[r].schedule) # {}
    /\ Cardinality(Switches(runs[r].schedule)) # hist.entered.context_switches


(* The earliest arrival time of a request.                                  *)
EarliestArrival(req) ==
  Min({req.processes[k].arrival_time : k \in 1..Len(req.processes)})

(* C36: in the result of a run with at least one process the sum of the     *)
(* burst times and context_switches * context_switch_cost is at most        *)
(* metrics.total_time, so cpu_utilization is at most 100; it is 100 exactly *)
(* when the first process arrives at 0 and the clock never jumps over a     *)
(* time with no ready process.                                              *)
TimeAccountedFor ==
  \A r \in DOMAIN runs :
    LET f == runs[r]
        m == f.metrics
        busy == TotalBurst(f.req) + m.context_switches * f.req.context_switch_cost
    IN (Returned(f) /\ ValidRequest(f.req) /\ f.req.processes # <<>>)
       => /\ busy <= m.total_time
          /\ m.cpu_utilization.den > 0
          /\ m.cpu_utilization.num <= 100 * m.cpu_utilization.den
          /\ m.cpu_utilization.num = 100 * m.cpu_utilization.den
             <=> (EarliestArrival(f.req) = 0 /\ f.jumps = <<>>)

(* A result with context switches and a utilization of 100, of a request   *)
(* whose processes arrive at 0 and later.                                   *)
BusyAllTheTimeReturned ==
  \E r \in DOMAIN runs :
    LET f == runs[r]
        m == f.metrics
    IN /\ Returned(f)
       /\ ValidRequest(f.req)
       /\ m.context_switches > 0
       /\ Len(f.req.processes) > 1
       /\ m.cpu_utilization.num = 100 * m.cpu_utilization.den
       /\ EarliestArrival(f.req) = 0
       /\ \E k \in 1..Len(f.req.processes) : f.req.processes[k].arrival_time > 0


(* C37: under every algorithm no process runs before it arrives: every      *)
(* execution entry of P starts at or after arrival_time(P), and a           *)
(* context_switch entry put before a slice of P starts at or after the      *)
(* time of the pass that selected P, when P had arrived, and ends where     *)
(* the slice starts.                                                        *)
NoExecutionBeforeArrival ==
  [][\A r \in DOMAIN runs \cap DOMAIN runs' :
       LET f == runs[r]
           g == runs'[r]
           n == Len(g.schedule)
           e == g.schedule[n]
           arrival == ProcessOf(f.req, e.process_id).arrival_time
       IN (ValidRequest(f.req) /\ g.req = f.req /\ f.pc = "loop" /\ n > Len(f.schedule))
          => /\ e.type = "execution"
             /\ e.start_time >= arrival
             /\ e.start_time >= f.current_time
             /\ n <= Len(f.schedule) + 2
             /\ n = Len(f.schedule) + 2
                => /\ g.schedule[n - 1].type = "context_switch"
                   /\ g.schedule[n - 1].start_time >= f.current_time
                   /\ g.schedule[n - 1].start_time >= arrival
                   /\ g.schedule[n - 1].end_time = e.start_time
             /\ \A i \in Executions(g.schedule) :
                  g.schedule[i].start_time
                    >= ProcessOf(f.req, g.schedule[i].process_id).arrival_time]_vars

(* A returned call in which a process that arrived after 0 ran right at     *)
(* its arrival, and another ran after a context switch that began after     *)
(* its arrival.                                                             *)
RanAtArrivalReturned ==
  \E r \in DOMAIN runs :
    LET f == runs[r] IN
    /\ Returned(f)
    /\ ValidRequest(f.req)
    /\ \E i \in Executions(f.schedule) :
         /\ ProcessOf(f.req, f.schedule[i].process_id).arrival_time > 0
         /\ f.schedule[i].start_time = ProcessOf(f.req, f.schedule[i].process_id).arrival_time
    /\ \E i \in Executions(f.schedule) :
         /\ i > 1
         /\ f.schedule[i - 1].type = "context_switch"
         /\ f.schedule[i - 1].start_time
              > ProcessOf(f.req, f.schedule[i].process_id).arrival_time


(* C38: in deficit round-robin with quantum Q no deficit counter is ever    *)
(* negative and the counter of the dispatched process is 0 after the        *)
(* dispatch, whether it completed or not: nothing is carried over, the      *)
(* first slice of a process has length min(2Q, burst_time) and every later  *)
(* one min(Q, remaining_time).                                              *)
DeficitNeverCarried ==
  [][\A r \in DOMAIN runs \cap DOMAIN runs' :
       LET f == runs[r]
           g == runs'[r]
           Q == g.time_quantum
           e == LastEntry(g)
           pid == e.process_id
       IN (/\ IsDeficitRoundRobin(f.req)
           /\ g.req = f.req
           /\ g.pc = "loop")
          => /\ \A q \in IdsOf(g.req) : g.deficit_counter[q] >= 0
             /\ (f.pc = "loop" /\ Len(g.schedule) > Len(f.schedule))
                => /\ g.deficit_counter[pid] = 0
                   /\ Length(e) =
                        IF ExecutionsOf(f.schedule, pid) = {}
                        THEN MinOf(2 * Q, ProcessOf(f.req, pid).burst_time)
                        ELSE MinOf(Q, f.remaining[pid])]_vars

(* A returned deficit round-robin call in which a process ran two quanta    *)
(* at first, with work left, and one quantum at its next dispatch, with     *)
(* work left again.                                                         *)
TwoQuantaThenOneReturned ==
  \E r \in DOMAIN runs :
    LET f == runs[r] IN
    /\ Returned(f)
    /\ IsDeficitRoundRobin(f.req)
    /\ \E i, j, k \in Executions(f.schedule) :
         /\ i < j /\ j < k
         /\ f.schedule[i].process_id = f.schedule[j].process_id
         /\ f.schedule[j].process_id = f.schedule[k].process_id
         /\ i = FirstDispatch(f.schedule, f.schedule[i].process_id)
         /\ ExecutionsOf(f.schedule, f.schedule[i].process_id) \cap (i + 1)..(j - 1) = {}
         /\ Length(f.schedule[i]) = 2 * f.time_quantum
         /\ Length(f.schedule[j]) = f.time_quantum


(* The position of pid in the queue, 0 when it is not in it.                *)
PositionIn(queue, pid) ==
  IF InSeq(pid, queue) THEN Min({i \in 1..Len(queue) : queue[i] = pid}) ELSE 0

(* C39: in standard round-robin, after a slice every process that has       *)
(* arrived by the end of the slice with work left is in the ready queue,    *)
(* and the process that ran the slice, if it has work left, is behind all   *)
(* of them: also behind those that arrived during the slice or during the   *)
(* context switch before it.                                                *)
PreemptedGoesBehindArrivals ==
  [][\A r \in DOMAIN runs \cap DOMAIN runs' :
       LET f == runs[r]
           g == runs'[r]
           e == LastEntry(g)
           pid == e.process_id
           arrived == {q \in IdsOf(f.req) \ {pid} :
                         /\ ProcessOf(f.req, q).arrival_time <= e.end_time
                         /\ g.remaining[q] > 0}
       IN (/\ IsStandardRoundRobin(f.req)
           /\ g.req = f.req
           /\ f.pc = "loop"
           /\ Len(g.schedule) > Len(f.schedule))
          => /\ \A q \in arrived : PositionIn(g.ready_queue, q) > 0
             /\ g.remaining[pid] > 0
                => /\ PositionIn(g.ready_queue, pid) = Len(g.ready_queue)
                   /\ \A q \in arrived :
                        PositionIn(g.ready_queue, q) < PositionIn(g.ready_queue, pid)
             /\ g.remaining[pid] = 0 => PositionIn(g.ready_queue, pid) = 0]_vars

(* A returned standard round-robin call in which a process was cut at the   *)
(* quantum after a context switch, and a process that arrived during that   *)
(* switch or that slice had its first dispatch before the next slice of     *)
(* the process that was cut.                                                *)
ArrivalServedBeforePreemptedReturned ==
  \E r \in DOMAIN runs :
    LET f == runs[r] IN
    /\ Returned(f)
    /\ IsStandardRoundRobin(f.req)
    /\ \E i, k \in Executions(f.schedule) :
         /\ 1 < i /\ i < k
         /\ f.schedule[i - 1].type = "context_switch"
         /\ f.schedule[i].process_id = f.schedule[k].process_id
         /\ ExecutionsOf(f.schedule, f.schedule[i].process_id) \cap (i + 1)..(k - 1) = {}
         /\ \E q \in IdsOf(f.req) :
              /\ ProcessOf(f.req, q).arrival_time > f.schedule[i - 1].start_time
              /\ ProcessOf(f.req, q).arrival_time <= f.schedule[i].end_time
              /\ FirstDispatch(f.schedule, q) > i
              /\ FirstDispatch(f.schedule, q) < k


-----------------------------------------------------------------------------
(* A terminal session: the commands of the terminal endpoint, each one      *)
(* call of execute_command on the module's ProcessManager.                  *)

Numerals == {<<Digits[pid + 1]>> : pid \in 0..(MaxCommands + 1)}

(* PID arguments: the pids in use and the next ones, a negative zero and a  *)
(* word that is not a number.                                               *)
PidWords == Numerals \cup {<<"-", "0">>, <<"a">>}

SignalWords ==
  {<<"-", "9">>, <<"-", "1", "5">>, <<"-", "1", "9">>, <<"-", "1", "8">>,
   <<"-", "2">>, <<"-", "a">>}

ProcessNames == {<<"a">>, <<"A", "b">>, <<"i", "n", "i", "t">>}

Patterns == {<<"a">>, <<"B">>, <<"f", "o", "r", "k">>, <<"i", "n", "i", "t">>}

OneOf(words) == {<<>>} \cup {<<word>> : word \in words}

InSession == Len(manager.command_history) < MaxCommands

Terminal(typed, args) ==
  /\ manager' = ExecuteCommand(manager, typed, args)
  /\ UNCHANGED <<svc, runs, hist, http>>

ForkArgs == OneOf(ProcessNames) \cup {<<name, <<"b">>>> : name \in ProcessNames}

Fork ==
  /\ InSession
  /\ \E args \in ForkArgs : Terminal("fork", args)

KillArgs ==
  OneOf(PidWords \cup SignalWords)
  \cup {<<signal, pid>> : signal \in SignalWords, pid \in PidWords}

Kill ==
  /\ InSession
  /\ \E args \in KillArgs : Terminal("kill", args)

Wait ==
  /\ InSession
  /\ \E args \in OneOf(PidWords) : Terminal("wait", args)

Sleep ==
  /\ InSession
  /\ \E args \in OneOf(PidWords) : Terminal("sleep", args)

Pkill ==
  /\ InSession
  /\ \E args \in OneOf(Patterns) : Terminal("pkill", args)

Killall ==
  /\ InSession
  /\ \E args \in OneOf(ProcessNames) : Terminal("killall", args)

(* ps, its alias p, and a command that the command map does not have.      *)
ReadOnly ==
  /\ InSession
  /\ \E typed \in {"ps", "p", "sp"} : Terminal(typed, <<>>)

InitTerminal ==
  /\ svc = ServiceInit
  /\ runs = <<>>
  /\ hist = NoHistory
  /\ http = NoExchange
  /\ manager = NewProcessManager

NextTerminal == Fork \/ Kill \/ Wait \/ Sleep \/ Pkill \/ Killall \/ ReadOnly

SpecTerminal == InitTerminal /\ [][NextTerminal]_vars

(* C40: after any sequence of terminal commands (fork, kill with any        *)
(* signal, wait, sleep, pkill, killall and the read-only commands) the      *)
(* kernel (PID 0) and init (PID 1) are neither TERMINATED nor BLOCKED:      *)
(* they are in the RUNNING state they were created in.                      *)
SystemProcessesStayRunning ==
  \A pid \in {0, 1} :
    /\ manager.processes[pid].state
         \notin {ProcessState.TERMINATED, ProcessState.BLOCKED}
    /\ manager.processes[pid].state = ProcessState.RUNNING

====
